---- MODULE Spec2Model ----
(***************************************************************************)
(* Model of the certificate renewal service of poc/eca-poc:                *)
(*   src/crl_manager.py         CRLManager                                 *)
(*   src/certificate_monitor.py CertificateMonitor                         *)
(*   src/est_client.py          ESTClient                                  *)
(*   src/step_ca_client.py      StepCAClient                               *)
(*   src/renewal_service.py     CertificateRenewalService                  *)
(* Time is in seconds.  Python's None is a record with some = FALSE.       *)
(***************************************************************************)
EXTENDS Integers, Sequences, FiniteSets, TLC

VARIABLES
    clock,              \* datetime.now(timezone.utc), in seconds
    ticks,              \* number of clock advances so far
    crl_cache,          \* CRLManager._crl_cache
    crl_info_cache,     \* CRLManager._crl_info_cache
    last_download_time, \* CRLManager._last_download_time
    crl_file,           \* the bytes of the cache file of each URL
    crl_mtime,          \* st_mtime of the cache file of each URL
    calls,              \* number of refresh_crl calls made so far
    last_call,          \* history: the most recent refresh_crl call
    fetched_at,         \* history: time of the last call that downloaded and returned a CRL
    protocol,           \* step_ca.protocol, upper-cased: "JWK" or "EST"
    fs,                 \* the files at cert_path, key_path and their .backup paths
    issued,             \* number of certificates the CA has issued so far
    renewals,           \* number of renew_certificate calls made so far
    last_renew,         \* history: the most recent renew_certificate call
    kept_backup,        \* history: per certificate, what cert_path held before the last
                        \* successful re-enrollment, while no later HTTP 200 rewrote the backup
    cert_threshold,     \* per certificate, cert_config.renewal_threshold_days
    service,            \* the ServiceConfig: default threshold, emergency and warning days
    crl_enabled,        \* step_ca.crl_enabled: the monitor has a CRLManager
    pc,                 \* where the command or the daemon is
    idx,                \* position in the certificates (evaluation) or statuses (renewal)
    statuses,           \* the CertificateStatus list of the current pass
    gets,               \* history: downloads attempted per URL in the current pass
    passes,             \* number of passes started
    running,            \* CertificateRenewalService.running
    end_time,           \* run_daemon: when the sleep between two passes ends
    in_renewal,         \* history: per certificate, renew_certificate calls not yet returned
    signal_at,          \* history: whether the daemon was renewing a certificate or sleeping
                        \* when the termination signal arrived
    boot,               \* history: what bootstrap_ca and get_ca_info met during initialize,
                        \* kept until run_daemon is entered
    last_check,         \* history: the most recent check_certificate_revocation call
    attempts,           \* history: per certificate, the renew_certificate calls of the
                        \* current pass and what the last of them came to
    observed,           \* history: what another process last read at cert_path or key_path
    report,             \* what the status command got from status_report
    token_call          \* get_provisioner_token: the call in progress, its sub-process
                        \* arguments, its standard input and its temporary password file

crlVars == <<crl_cache, crl_info_cache, last_download_time, crl_file, crl_mtime,
             calls, last_call, fetched_at>>
fsVars == <<protocol, fs, issued, renewals, last_renew, kept_backup>>
cfgVars == <<cert_threshold, service, crl_enabled>>
loopVars == <<pc, idx, statuses, gets, passes, running, end_time, in_renewal>>
obsVars == <<signal_at, boot, last_check>>
outVars == <<attempts, observed, report, token_call>>
vars == <<clock, ticks, crlVars, fsVars, cfgVars, loopVars, obsVars, outVars>>

-----------------------------------------------------------------------------
(* Bounds of the model *)

MaxTicks == 3
MaxCalls == 4
MaxRenewals == 3
MaxPassTicks == 1
MaxPasses == 2
MaxIssued == 4
MaxChecks == 2
CheckIntervalMinutes == 1
NumCerts == 2
CertLifetimeDays == 90

(* Program constants *)

CoalesceWindow == 60
DaySeconds == 86400
DefaultThresholdDays == 30
DefaultEmergencyDays == 7
DefaultWarningDays == 14
RetryDelay == 300
CrlRefreshHours == 24

-----------------------------------------------------------------------------
(* Values *)

Urls == {"u1", "u2"}

\* step_ca.crl_urls of the configuration
ConfiguredCrlUrls == <<"u1">>

\* amounts by which the clock advances between two operations
TickSteps == {1, 59}
PassSteps == {60}

NoTime == [some |-> FALSE, t |-> 0]
SomeTime(t) == [some |-> TRUE, t |-> t]

\* a parsed x509.CertificateRevocationList; None is NoCrl
NoCrl == [some |-> FALSE, issuer |-> "", revoked |-> {}]
Crl(issuer, revoked) == [some |-> TRUE, issuer |-> issuer, revoked |-> revoked]

\* a CRLInfo; None (no entry) is NoInfo
NoInfo == [some |-> FALSE, issuer |-> "", revoked_count |-> 0]

\* bytes of a CRL: an encoding and what it encodes
AbsentFile == [enc |-> "absent", issuer |-> "", revoked |-> {}]
JunkBytes == [enc |-> "junk", issuer |-> "", revoked |-> {}]
PartialBytes == [enc |-> "partial", issuer |-> "", revoked |-> {}]
CrlBytes(enc, issuer, revoked) == [enc |-> enc, issuer |-> issuer, revoked |-> revoked]

\* what a CRL server can answer with
DownloadBodies ==
    { JunkBytes,
      CrlBytes("pem", "CN=CA1", {}),
      CrlBytes("pem", "CN=CA1", {1}),
      CrlBytes("der", "CN=CA2", {1}) }

\* download_crl: the HTTP GET fails, or returns a body
DownloadOutcomes ==
    { [ok |-> FALSE, body |-> AbsentFile] } \cup { [ok |-> TRUE, body |-> b] : b \in DownloadBodies }

\* save_crl_to_file: all written; open() fails; write() fails after open() truncated
SaveOutcomes == {"ok", "open_fail", "write_fail"}

-----------------------------------------------------------------------------
(* CRLManager *)

\* x509.load_pem_x509_crl, then x509.load_der_x509_crl on ValueError
ParseCrl(bytes) ==
    IF bytes.enc = "pem" THEN Crl(bytes.issuer, bytes.revoked)
    ELSE IF bytes.enc = "der" THEN Crl(bytes.issuer, bytes.revoked)
    ELSE NoCrl

\* load_crl_from_file: None when the file is missing or does not parse
LoadCrlFromFile(file) ==
    IF file.enc = "absent" THEN NoCrl ELSE ParseCrl(file)

\* save_crl_to_file: the file afterwards
SaveCrlToFile(file, data, outcome) ==
    IF outcome = "ok" THEN data
    ELSE IF outcome = "write_fail" THEN PartialBytes
    ELSE file

\* get_crl_info
GetCrlInfo(crl) == [some |-> TRUE, issuer |-> crl.issuer, revoked_count |-> Cardinality(crl.revoked)]

\* the state of a CRLManager
Manager == [cache |-> crl_cache, info |-> crl_info_cache,
            last |-> last_download_time, file |-> crl_file, mtime |-> crl_mtime]

\* crl.next_update_utc as get_crl_info stores it (line 193): the CRLs of CA1 are
\* due one minute after the start, those of CA2 carry no nextUpdate
NextUpdateOf(info) ==
    IF info.issuer = "CN=CA1" THEN SomeTime(60) ELSE NoTime

\* st_mtime of the cache files: those that exist were written at time t
WrittenAt(files, t) ==
    [u \in Urls |-> IF files[u].enc = "absent" THEN NoTime ELSE SomeTime(t)]

\* _should_refresh_crl: the cache file is missing, is older than
\* crl_refresh_hours, or the cached next_update has been reached
ShouldRefreshCrl(m, u, now) ==
    \/ m.file[u].enc = "absent"
    \/ now - m.mtime[u].t > CrlRefreshHours * 3600
    \/ /\ m.info[u].some
       /\ NextUpdateOf(m.info[u]).some
       /\ now >= NextUpdateOf(m.info[u]).t

\* a variant of the window of refresh_crl that lasts 6 s
RecentlyDownloadedShort(m, u, now) ==
    /\ m.last[u].some
    /\ now - m.last[u].t < 6
    /\ m.cache[u].some

\* a variant of the window that does not ask whether the URL is cached
RecentlyDownloadedAnyCache(m, u, now) ==
    /\ m.last[u].some
    /\ now - m.last[u].t < CoalesceWindow

\* a variant that also reuses the cached CRL whenever _should_refresh_crl
\* asks for no refresh
RecentlyDownloadedOrFresh(m, u, now) ==
    \/ /\ m.last[u].some
       /\ now - m.last[u].t < CoalesceWindow
       /\ m.cache[u].some
    \/ /\ m.cache[u].some
       /\ ~ShouldRefreshCrl(m, u, now)

\* refresh_crl, lines 236-241: the URL was downloaded less than 60 s ago and is cached
RecentlyDownloaded(m, u, now) ==
    /\ m.last[u].some
    /\ now - m.last[u].t < CoalesceWindow
    /\ m.cache[u].some

\* `if crl:` (refresh_crl, lines 256 and 293): a CertificateRevocationList has
\* __len__, so None and a CRL that lists no certificate are both false
Truthy(crl) == crl.some /\ crl.revoked # {}

\* refresh_crl: the manager afterwards (m), the value returned (ret), whether
\* the network was used (net) and whether load_crl_from_file was called (load)
RefreshCrl(m, u, now, dl, sv) ==
    IF RecentlyDownloaded(m, u, now)
    THEN [m |-> m, ret |-> m.cache[u], net |-> FALSE, load |-> FALSE]
    ELSE IF ~dl.ok
    THEN IF m.cache[u].some
         THEN [m |-> m, ret |-> m.cache[u], net |-> TRUE, load |-> FALSE]
         ELSE LET crl == LoadCrlFromFile(m.file[u])
              IN  IF Truthy(crl)
                  THEN [m |-> [m EXCEPT !.cache[u] = crl], ret |-> crl, net |-> TRUE,
                        load |-> TRUE]
                  ELSE [m |-> m, ret |-> NoCrl, net |-> TRUE, load |-> TRUE]
    ELSE LET m1 == [m EXCEPT !.last[u] = SomeTime(now),
                             !.file[u] = SaveCrlToFile(m.file[u], dl.body, sv),
                             !.mtime[u] = IF sv = "open_fail" THEN @ ELSE SomeTime(now)]
             crl == ParseCrl(dl.body)
         IN  IF crl.some
             THEN [m |-> [m1 EXCEPT !.cache[u] = crl, !.info[u] = GetCrlInfo(crl)],
                   ret |-> crl, net |-> TRUE, load |-> FALSE]
             ELSE LET old == LoadCrlFromFile(m1.file[u])
                  IN  IF Truthy(old)
                      THEN [m |-> [m1 EXCEPT !.cache[u] = old], ret |-> old, net |-> TRUE,
                            load |-> TRUE]
                      ELSE [m |-> m1, ret |-> NoCrl, net |-> TRUE, load |-> TRUE]

\* history record of a refresh_crl call
NoCall == [made |-> FALSE, url |-> "", time |-> 0, net |-> FALSE, dl_ok |-> FALSE,
           ret |-> NoCrl, cached |-> NoCrl, fetched |-> NoTime,
           parsed |-> FALSE, file |-> AbsentFile,
           last |-> NoTime, should |-> FALSE, load |-> FALSE]

-----------------------------------------------------------------------------
(* Certificate and key files *)

Certs == 1..NumCerts

CertPath(c) == <<c, "cert">>
KeyPath(c) == <<c, "key">>
CertBackupPath(c) == <<c, "cert.backup">>
KeyBackupPath(c) == <<c, "key.backup">>
Paths == UNION { {CertPath(c), KeyPath(c), CertBackupPath(c), KeyBackupPath(c)} : c \in Certs }

\* file contents: a certificate (serial, the key it certifies, validity, CDP URLs),
\* a private key, a file cut short by a failed write, or no file
AbsentF == [kind |-> "absent", serial |-> 0, key |-> 0, nb |-> 0, na |-> 0, cdp |-> <<>>]
PartialF == [kind |-> "partial", serial |-> 0, key |-> 0, nb |-> 0, na |-> 0, cdp |-> <<>>]
CertF(serial, key, nb, na, cdp) ==
    [kind |-> "cert", serial |-> serial, key |-> key, nb |-> nb, na |-> na, cdp |-> cdp]
KeyF(key) == [kind |-> "key", serial |-> 0, key |-> key, nb |-> 0, na |-> 0, cdp |-> <<>>]

Exists(f, p) == f[p].kind # "absent"

\* open(path, 'wb') then write(data): all written; open() raises; write() raises
\* after open() truncated the file
WriteOutcomes == {"ok", "open_fail", "write_fail"}
WriteFile(f, p, data, outcome) ==
    IF outcome = "ok" THEN [f EXCEPT ![p] = data]
    ELSE IF outcome = "write_fail" THEN [f EXCEPT ![p] = PartialF]
    ELSE f

\* shutil.copy2(src, dst): raises when src is missing
CopyFile(f, src, dst, outcome) ==
    IF ~Exists(f, src) THEN f ELSE WriteFile(f, dst, f[src], outcome)
CopyOk(f, src, outcome) == Exists(f, src) /\ outcome = "ok"

\* os.remove
RemoveFile(f, p) == [f EXCEPT ![p] = AbsentF]

\* what the CA issues at time now: serial n, for key k
IssuedCert(n, k, now) == CertF(n, k, now, now + CertLifetimeDays * DaySeconds, <<>>)

-----------------------------------------------------------------------------
(* ESTClient *)

\* The first thing to go wrong in one EST call; every exception ends the call
\* (est_client.py lines 198-200, 262-264), so later faults cannot happen.
ESTFaults == {"none", "read", "post_exception", "post_status",
              "backup_open", "backup_write", "cert_open", "cert_write",
              "key_open", "key_write", "chmod"}

\* enroll_certificate, lines 170-192: on HTTP 200 the body is written to the
\* certificate path, the generated key to the key path
ESTWriteArtifacts(f, c, cert, key, fault) ==
    IF fault = "cert_open" THEN f
    ELSE IF fault = "cert_write" THEN WriteFile(f, CertPath(c), cert, "write_fail")
    ELSE LET f1 == WriteFile(f, CertPath(c), cert, "ok")
         IN  IF fault = "key_open" THEN f1
             ELSE IF fault = "key_write" THEN WriteFile(f1, KeyPath(c), key, "write_fail")
             ELSE WriteFile(f1, KeyPath(c), key, "ok")

\* enroll_certificate
ESTEnroll(f, c, cert, key, fault) ==
    IF fault \in {"post_exception", "post_status"}
    THEN [fs |-> f, ok |-> FALSE, http200 |-> FALSE]
    ELSE [fs |-> ESTWriteArtifacts(f, c, cert, key, fault),
          ok |-> fault \in {"none", "read", "backup_open", "backup_write"},
          http200 |-> TRUE]

\* renew_certificate without lines 239-242: a variant that writes no backup
ESTBackupSkipped(f, c, current_cert_data, fault) == f

\* renew_certificate, lines 239-242: the certificate read at line 213 goes to
\* <cert_path>.backup
ESTBackup(f, c, current_cert_data, fault) ==
    IF fault = "backup_open" THEN f
    ELSE IF fault = "backup_write"
    THEN WriteFile(f, CertBackupPath(c), current_cert_data, "write_fail")
    ELSE WriteFile(f, CertBackupPath(c), current_cert_data, "ok")

\* renew_certificate, lines 258-260: simplereenroll for an existing certificate
\* was answered with a status other than 200
ESTNon200(proto, f, c, fault) ==
    proto = "EST" /\ Exists(f, CertPath(c)) /\ fault = "post_status"

\* ESTClient.renew_certificate
ESTRenew(f, c, cert, key, fault) ==
    IF ~Exists(f, CertPath(c)) THEN ESTEnroll(f, c, cert, key, fault)
    ELSE IF fault \in {"read", "post_exception", "post_status"}
    THEN [fs |-> f, ok |-> FALSE, http200 |-> FALSE]
    ELSE LET f1 == ESTBackup(f, c, f[CertPath(c)], fault)
         IN  IF fault \in {"backup_open", "backup_write"}
             THEN [fs |-> f1, ok |-> FALSE, http200 |-> TRUE]
             ELSE [fs |-> ESTWriteArtifacts(f1, c, cert, key, fault),
                   ok |-> fault = "none", http200 |-> TRUE]

-----------------------------------------------------------------------------
(* StepCAClient, token (JWK) adapter *)

\* What the environment does to one _renew_certificate_jwk call:
\*   bk     the two shutil.copy2 calls of lines 252-253 (one try block)
\*   renew  `step ca renew --force`: done, failed leaving the files alone, or
\*          failed (killed at the 60 s timeout) with the certificate half written
\*   token  `step ca token`
\*   req    `step ca certificate --force`, as renew
JWKEnvs == [bk : {"ok", "first_open", "first_write", "second_open", "second_write"},
            renew : {"ok", "fail_clean", "fail_dirty"},
            token : {"ok", "fail"},
            req : {"ok", "fail_clean", "fail_dirty"}]

\* lines 250-256: copy certificate and key to their .backup paths
JWKBackup(f, c, bk) ==
    IF bk = "first_open" THEN f
    ELSE IF bk = "first_write" THEN CopyFile(f, CertPath(c), CertBackupPath(c), "write_fail")
    ELSE LET f1 == CopyFile(f, CertPath(c), CertBackupPath(c), "ok")
         IN  IF bk = "second_open" THEN f1
             ELSE IF bk = "second_write"
             THEN CopyFile(f1, KeyPath(c), KeyBackupPath(c), "write_fail")
             ELSE CopyFile(f1, KeyPath(c), KeyBackupPath(c), "ok")

\* lines 271-275: os.remove of both backups; the first failure skips the rest
JWKRemoveBackups(f, c) ==
    IF ~Exists(f, CertBackupPath(c)) THEN f
    ELSE LET f1 == RemoveFile(f, CertBackupPath(c))
         IN  IF ~Exists(f1, KeyBackupPath(c)) THEN f1
             ELSE RemoveFile(f1, KeyBackupPath(c))

\* lines 281-285: copy both backups back; the first failure skips the rest
JWKRestore(f, c) ==
    IF ~Exists(f, CertBackupPath(c)) THEN f
    ELSE LET f1 == CopyFile(f, CertBackupPath(c), CertPath(c), "ok")
         IN  CopyFile(f1, KeyBackupPath(c), KeyPath(c), "ok")

\* `step ca renew cert key --force`: the CA re-issues for the key in place
CanRenewInPlace(f, c) ==
    /\ f[CertPath(c)].kind = "cert"
    /\ f[KeyPath(c)].kind = "key"
    /\ f[CertPath(c)].key = f[KeyPath(c)].key

StepCaRenew(f, c, n, now, outcome) ==
    IF outcome = "ok" /\ CanRenewInPlace(f, c)
    THEN [fs |-> [f EXCEPT ![CertPath(c)] = IssuedCert(n, f[KeyPath(c)].key, now)], ok |-> TRUE]
    ELSE IF outcome = "fail_dirty"
    THEN [fs |-> [f EXCEPT ![CertPath(c)] = PartialF], ok |-> FALSE]
    ELSE [fs |-> f, ok |-> FALSE]

\* _request_certificate_jwk: token, then `step ca certificate subject cert key`;
\* cmds are the step commands that were run
RequestCertificateJwk(f, c, n, now, token, req) ==
    IF token # "ok" THEN [fs |-> f, ok |-> FALSE, cmds |-> <<"token">>]
    ELSE IF req = "ok"
    THEN [fs |-> [f EXCEPT ![CertPath(c)] = IssuedCert(n, n, now), ![KeyPath(c)] = KeyF(n)],
          ok |-> TRUE, cmds |-> <<"token", "certificate">>]
    ELSE IF req = "fail_dirty"
    THEN [fs |-> [f EXCEPT ![CertPath(c)] = PartialF], ok |-> FALSE,
          cmds |-> <<"token", "certificate">>]
    ELSE [fs |-> f, ok |-> FALSE, cmds |-> <<"token", "certificate">>]

\* a variant of _renew_certificate_jwk that gives up when `step ca renew` failed
JWKRenewNoFallback(f, c, n, now, e) ==
    IF ~Exists(f, CertPath(c)) \/ ~Exists(f, KeyPath(c))
    THEN [fs |-> f, ok |-> FALSE, http200 |-> FALSE, cmds |-> <<>>,
          in_place |-> FALSE, enrolled |-> FALSE]
    ELSE LET f1 == JWKBackup(f, c, e.bk)
             r == StepCaRenew(f1, c, n, now, e.renew)
         IN  IF r.ok
             THEN [fs |-> JWKRemoveBackups(r.fs, c), ok |-> TRUE, http200 |-> FALSE,
                   cmds |-> <<"renew">>, in_place |-> TRUE, enrolled |-> FALSE]
             ELSE [fs |-> JWKRestore(r.fs, c), ok |-> FALSE, http200 |-> FALSE,
                   cmds |-> <<"renew">>, in_place |-> FALSE, enrolled |-> FALSE]

\* StepCAClient._renew_certificate_jwk; in_place and enrolled tell which of
\* `step ca renew` and the fresh request succeeded
JWKRenew(f, c, n, now, e) ==
    IF ~Exists(f, CertPath(c)) \/ ~Exists(f, KeyPath(c))
    THEN [fs |-> f, ok |-> FALSE, http200 |-> FALSE, cmds |-> <<>>,
          in_place |-> FALSE, enrolled |-> FALSE]
    ELSE LET f1 == JWKBackup(f, c, e.bk)
             r == StepCaRenew(f1, c, n, now, e.renew)
         IN  IF r.ok
             THEN [fs |-> JWKRemoveBackups(r.fs, c), ok |-> TRUE, http200 |-> FALSE,
                   cmds |-> <<"renew">>, in_place |-> TRUE, enrolled |-> FALSE]
             ELSE LET q == RequestCertificateJwk(JWKRestore(r.fs, c), c, n, now, e.token, e.req)
                  IN  [fs |-> q.fs, ok |-> q.ok, http200 |-> FALSE,
                       cmds |-> <<"renew">> \o q.cmds, in_place |-> FALSE, enrolled |-> q.ok]

\* the environments of one renew_certificate call under a protocol
NoJwkFault == [bk |-> "ok", renew |-> "ok", token |-> "ok", req |-> "ok"]
RenewEnvs(proto) ==
    IF proto = "EST" THEN { [fault |-> x, e |-> NoJwkFault] : x \in ESTFaults }
    ELSE { [fault |-> "none", e |-> x] : x \in JWKEnvs }

\* StepCAClient.renew_certificate: dispatch on the protocol
RenewCertificate(proto, f, c, n, now, fault, e) ==
    IF proto = "EST"
    THEN ESTRenew(f, c, IssuedCert(n, n, now), KeyF(n), fault)
    ELSE JWKRenew(f, c, n, now, e)

\* the step commands a renew_certificate call ran and what they came to;
\* the EST adapter runs none
StepCommands(proto, r) ==
    IF proto = "EST" THEN [cmds |-> <<>>, in_place |-> FALSE, enrolled |-> FALSE]
    ELSE [cmds |-> r.cmds, in_place |-> r.in_place, enrolled |-> r.enrolled]

-----------------------------------------------------------------------------
(* CertificateMonitor *)

\* cert_config.renewal_threshold_days as get_effective_renewal_threshold reads it:
\* CertificateConfig (config.py lines 10-18) declares no such field, so reading
\* it raises AttributeError; a configuration object that has it holds None or days
NoAttr == [kind |-> "absent", v |-> 0]
NoneAttr == [kind |-> "none", v |-> 0]
IntAttr(v) == [kind |-> "int", v |-> v]

\* get_effective_renewal_threshold; def is service_config.default_renewal_threshold_days
GetEffectiveRenewalThreshold(attr, def) ==
    IF attr.kind = "absent" THEN [raised |-> TRUE, v |-> 0]
    ELSE IF attr.kind = "int" THEN [raised |-> FALSE, v |-> attr.v]
    ELSE IF def.kind = "int" THEN [raised |-> FALSE, v |-> def.v]
    ELSE [raised |-> FALSE, v |-> DefaultThresholdDays]

\* timedelta.days: whole days, rounded towards minus infinity
Days(seconds) == seconds \div DaySeconds

\* a variant of check_certificate_expiry with needs_renewal = days < threshold
CheckCertificateExpiryStrict(na, now, threshold, svc) ==
    LET days == Days(na - now)
        needs == days < threshold
    IN  [days |-> days, needs |-> needs,
         reason |-> IF days <= svc.emergency THEN "emergency"
                    ELSE IF days <= svc.warning
                    THEN (IF needs THEN "warning" ELSE "approaching")
                    ELSE (IF needs THEN "normal" ELSE "valid")]

\* a variant of check_certificate_expiry that ignores the emergency and warning
\* days, as lines 98-99 do for a monitor without service configuration
CheckCertificateExpiryNoService(na, now, threshold, svc) ==
    LET days == Days(na - now)
        needs == days <= threshold
    IN  [days |-> days, needs |-> needs, reason |-> IF needs THEN "normal" ELSE "valid"]

\* check_certificate_expiry
CheckCertificateExpiry(na, now, threshold, svc) ==
    LET days == Days(na - now)
        needs == days <= threshold
    IN  [days |-> days, needs |-> needs,
         reason |-> IF days <= svc.emergency THEN "emergency"
                    ELSE IF days <= svc.warning
                    THEN (IF needs THEN "warning" ELSE "approaching")
                    ELSE (IF needs THEN "normal" ELSE "valid")]

\* load_certificate: None unless the file holds a certificate
LoadCertificate(file) == file.kind = "cert"

\* the set of a sequence's elements
Range(seq) == { seq[i] : i \in 1..Len(seq) }

\* the orders in which a Python set of URLs can be iterated
Orders(S) == { o \in [1..Cardinality(S) -> S] : Range(o) = S }

NotRevoked == [is_revoked |-> FALSE, crl_source |-> ""]

\* check_certificate_revocation, lines 348-394: the loop over the URLs from
\* position i of order on; out[u] is what the network and the disk do for u
RECURSIVE RevocationLoop(_, _, _, _, _, _, _)
RevocationLoop(m, serial, order, i, now, out, n_gets) ==
    IF i > Len(order) THEN [m |-> m, rev |-> NotRevoked, gets |-> n_gets, seen |-> <<>>]
    ELSE LET u == order[i]
             r == RefreshCrl(m, u, now, out[u].dl, out[u].sv)
             g == IF r.net THEN [n_gets EXCEPT ![u] = @ + 1] ELSE n_gets
             this == <<[url |-> u, ret |-> r.ret]>>
         IN  IF r.ret.some /\ serial \in r.ret.revoked
             THEN [m |-> r.m, rev |-> [is_revoked |-> TRUE, crl_source |-> u], gets |-> g,
                   seen |-> this]
             ELSE LET rest == RevocationLoop(r.m, serial, order, i + 1, now, out, g)
                  IN  [rest EXCEPT !.seen = this \o @]

\* a variant of the URL set that leaves out the distribution points
RevocationUrlsConfiguredOnly(configured, cert) == Range(configured)

\* check_certificate_revocation, lines 331-339: configured URLs and the CDP URLs
RevocationUrlsOf(configured, cert) == Range(configured) \cup Range(cert.cdp)

RevocationUrls(cert) == RevocationUrlsOf(ConfiguredCrlUrls, cert)

\* check_certificate_revocation: disabled (lines 326-328), no URL (341-343), or
\* the loop over the URLs in the iteration order of the set
CheckCertificateRevocation(m, cert, enabled, configured, order, now, out, n_gets) ==
    IF ~enabled \/ RevocationUrlsOf(configured, cert) = {}
    THEN [m |-> m, rev |-> NotRevoked, gets |-> n_gets, seen |-> <<>>]
    ELSE RevocationLoop(m, cert.serial, order, 1, now, out, n_gets)

\* a variant of the error status with needs_renewal and the message left out
ErrorStatusSilent(c, thr, msg) ==
    [name |-> c, is_valid |-> FALSE, has_expiry |-> FALSE, days |-> 0,
     needs_renewal |-> FALSE, threshold |-> thr, reason |-> "error",
     is_revoked |-> FALSE, crl_source |-> "", error_message |-> "",
     now |-> 0, nb |-> 0, na |-> 0]

\* a CertificateStatus; days_until_expiry and expires_at are None when
\* has_expiry is FALSE, error_message is None when it is "".  now, nb and na
\* record the clock read at line 179 and the validity it was compared with.
ErrorStatus(c, thr, msg) ==
    [name |-> c, is_valid |-> FALSE, has_expiry |-> FALSE, days |-> 0,
     needs_renewal |-> TRUE, threshold |-> thr, reason |-> "error",
     is_revoked |-> FALSE, crl_source |-> "", error_message |-> msg,
     now |-> 0, nb |-> 0, na |-> 0]

\* a variant of is_valid without the revocation check
OverallValidityTimeOnly(is_time_valid, is_revoked) == is_time_valid

\* check_certificate_status, line 210
OverallValidity(is_time_valid, is_revoked) == is_time_valid /\ ~is_revoked

\* check_certificate_status: file is what cert_path holds, now1 the clock read in
\* check_certificate_expiry (line 82), now2 the clock read at line 179
CheckCertificateStatus(c, file, attr, svc, crl_on, m, now1, now2, order, out, n_gets) ==
    LET thr == GetEffectiveRenewalThreshold(attr, svc.default)
    IN  IF thr.raised
        THEN [raised |-> TRUE, status |-> ErrorStatus(c, 0, "AttributeError"),
              m |-> m, gets |-> n_gets]
        ELSE IF ~LoadCertificate(file)
        THEN [raised |-> FALSE, status |-> ErrorStatus(c, thr.v, "Failed to load certificate"),
              m |-> m, gets |-> n_gets]
        ELSE LET e == CheckCertificateExpiry(file.na, now1, thr.v, svc)
                 is_time_valid == file.nb <= now2 /\ now2 <= file.na
                 r == IF crl_on /\ is_time_valid
                      THEN RevocationLoop(m, file.serial, order, 1, now2, out, n_gets)
                      ELSE [m |-> m, rev |-> NotRevoked, gets |-> n_gets]
             IN  [raised |-> FALSE,
                  status |-> [name |-> c,
                              is_valid |-> OverallValidity(is_time_valid, r.rev.is_revoked),
                              has_expiry |-> TRUE, days |-> e.days,
                              needs_renewal |-> e.needs \/ r.rev.is_revoked,
                              threshold |-> thr.v, reason |-> e.reason,
                              is_revoked |-> r.rev.is_revoked,
                              crl_source |-> r.rev.crl_source,
                              error_message |-> "",
                              now |-> now2, nb |-> file.nb, na |-> file.na],
                  m |-> r.m, gets |-> r.gets]

-----------------------------------------------------------------------------
(* Initial values of the parts a command does not use *)

\* history records: no backup to keep, no renew_certificate call yet
NoFile == [some |-> FALSE, bytes |-> AbsentF, fresh |-> FALSE]
NoRenew == [made |-> FALSE, cert |-> 0, ok |-> FALSE, pre_cert |-> AbsentF, pre_key |-> AbsentF,
            pre_backup |-> AbsentF, non200 |-> FALSE, pass |-> 0,
            step |-> [cmds |-> <<>>, in_place |-> FALSE, enrolled |-> FALSE]]

\* history records: no signal yet, initialize not run, no revocation check yet
NoSignal == [some |-> FALSE, pc |-> "", idx |-> 0, passes |-> 0, slept |-> 0]
NoBoot == [done |-> FALSE, bootstrap |-> "", probe |-> ""]
NoCheck == [made |-> FALSE, enabled |-> FALSE, serial |-> 0, configured |-> <<>>,
            cdp |-> <<>>, seen |-> <<>>, rev |-> NotRevoked]

\* history records: no renewal attempted in the pass, nothing read by another
\* process; no status report asked for
NoAttempt == [n |-> 0, ok |-> FALSE, verified |-> FALSE]
NoRead == [some |-> FALSE, path |-> <<0, "">>, bytes |-> AbsentF, old |-> AbsentF, new |-> AbsentF]
NoReport == [made |-> FALSE, raised |-> FALSE, certificates |-> <<>>]

\* no get_provisioner_token call in progress and none made
NoToken == [pc |-> "idle", n |-> 0, args |-> <<>>, input |-> "", file |-> "absent",
            exit |-> "", ret |-> ""]

ObsIdle ==
    /\ signal_at = NoSignal
    /\ boot = NoBoot
    /\ last_check = NoCheck
    /\ attempts = [c \in Certs |-> NoAttempt]
    /\ observed = NoRead
    /\ report = NoReport
    /\ token_call = NoToken

CrlIdle ==
    /\ crl_cache = [u \in Urls |-> NoCrl]
    /\ crl_info_cache = [u \in Urls |-> NoInfo]
    /\ last_download_time = [u \in Urls |-> NoTime]
    /\ crl_file = [u \in Urls |-> AbsentFile]
    /\ crl_mtime = [u \in Urls |-> NoTime]
    /\ calls = 0
    /\ last_call = NoCall
    /\ fetched_at = [u \in Urls |-> NoTime]

FsIdle ==
    /\ protocol = "JWK"
    /\ fs = [p \in Paths |-> AbsentF]
    /\ issued = NumCerts
    /\ renewals = 0
    /\ last_renew = NoRenew
    /\ kept_backup = [c \in Certs |-> NoFile]

DefaultService == [default |-> NoAttr, emergency |-> DefaultEmergencyDays,
                   warning |-> DefaultWarningDays]

LoopIdle ==
    /\ cert_threshold = [c \in Certs |-> NoAttr]
    /\ service = DefaultService
    /\ crl_enabled = TRUE
    /\ pc = "command"
    /\ idx = 0
    /\ statuses = <<>>
    /\ gets = [u \in Urls |-> 0]
    /\ passes = 0
    /\ running = FALSE
    /\ end_time = 0
    /\ in_renewal = [c \in Certs |-> 0]

-----------------------------------------------------------------------------
(* The renew command: renew_certificate on any certificate, one call at a time *)


\* the certificate and key a certificate starts with: both, or one or both missing
InitialFiles(c) ==
    LET cert == CertF(c, c, 0, CertLifetimeDays * DaySeconds, <<>>)
    IN  { [cert |-> cert, key |-> KeyF(c)], [cert |-> AbsentF, key |-> KeyF(c)],
          [cert |-> cert, key |-> AbsentF], [cert |-> AbsentF, key |-> AbsentF] }

FilesOf(init) ==
    [p \in Paths |-> IF p[2] = "cert" THEN init[p[1]].cert
                     ELSE IF p[2] = "key" THEN init[p[1]].key
                     ELSE AbsentF]

\* the renew command renews the certificate named on the command line
RenewTargets == {1}

InitRenew ==
    /\ ObsIdle
    /\ clock = 0
    /\ ticks = 0
    /\ CrlIdle
    /\ protocol \in {"JWK", "EST"}
    /\ \E first \in InitialFiles(1) :
          fs = FilesOf([c \in Certs |-> IF c \in RenewTargets THEN first
                                        ELSE [cert |-> CertF(c, c, 0, CertLifetimeDays * DaySeconds, <<>>),
                                              key |-> KeyF(c)]])
    /\ issued = NumCerts
    /\ renewals = 0
    /\ last_renew = NoRenew
    /\ kept_backup = [c \in Certs |-> NoFile]
    /\ LoopIdle

\* the history of backups after a call on certificate c with result r
KeptAfter(kept, f, c, r) ==
    IF r.ok
    THEN IF Exists(f, CertPath(c))
         THEN [some |-> TRUE, bytes |-> f[CertPath(c)], fresh |-> TRUE]
         ELSE NoFile
    ELSE IF r.http200 THEN [kept EXCEPT !.fresh = FALSE]
    ELSE kept

RenewCall(c) ==
    /\ renewals < MaxRenewals
    /\ \E env \in RenewEnvs(protocol) :
          /\ LET r == RenewCertificate(protocol, fs, c, issued + 1, clock, env.fault, env.e)
             IN  /\ fs' = r.fs
                 /\ last_renew' = [made |-> TRUE, cert |-> c, ok |-> r.ok,
                                   pre_cert |-> fs[CertPath(c)], pre_key |-> fs[KeyPath(c)],
                                   pre_backup |-> fs[CertBackupPath(c)],
                                   non200 |-> ESTNon200(protocol, fs, c, env.fault),
                                   pass |-> passes, step |-> StepCommands(protocol, r)]
                 /\ kept_backup' = [kept_backup EXCEPT ![c] = KeptAfter(kept_backup[c], fs, c, r)]
    /\ issued' = issued + 1
    /\ renewals' = renewals + 1
    /\ UNCHANGED <<clock, ticks, crlVars, protocol, cfgVars, loopVars, obsVars, outVars>>

NextRenew == \E c \in RenewTargets : RenewCall(c)

SpecRenew == InitRenew /\ [][NextRenew]_vars

-----------------------------------------------------------------------------
(* ESTClient writing the new certificate and key, step by step, while another
   process reads the files *)

\* the certificate in the CA's answer and the key _generate_csr made for it
NewCert == IssuedCert(issued + 1, issued + 1, clock)
NewKey == KeyF(issued + 1)

InitWrite ==
    /\ InitRenew
    /\ protocol = "EST"

\* enroll_certificate, lines 170-178, and renew_certificate, lines 237-242: the
\* CA answered 200; renew_certificate writes the backup of the certificate it read
ESTAnswer200(c) ==
    /\ pc = "command"
    /\ renewals < MaxRenewals
    /\ fs' = IF Exists(fs, CertPath(c)) THEN ESTBackup(fs, c, fs[CertPath(c)], "none") ELSE fs
    /\ last_renew' = [NoRenew EXCEPT !.made = TRUE, !.cert = c,
                                     !.pre_cert = fs[CertPath(c)], !.pre_key = fs[KeyPath(c)],
                                     !.pre_backup = fs[CertBackupPath(c)]]
    /\ renewals' = renewals + 1
    /\ idx' = c
    /\ pc' = "open_cert"
    /\ UNCHANGED <<clock, ticks, crlVars, protocol, issued, kept_backup, cfgVars, statuses, gets,
                   passes, running, end_time, in_renewal, obsVars, outVars>>

\* the call in progress ends: it returned, or an exception took it to lines
\* 198-200 or 262-264
ESTCallEnds(ok) ==
    /\ pc' = "command"
    /\ issued' = issued + 1
    /\ last_renew' = [last_renew EXCEPT !.ok = ok]

\* lines 180 and 244: open(cert_path, 'wb') truncates the file, or raises
OpenCert ==
    /\ pc = "open_cert"
    /\ \E o \in {"ok", "open_fail"} :
          IF o = "ok"
          THEN /\ fs' = [fs EXCEPT ![CertPath(idx)] = PartialF]
               /\ pc' = "write_cert"
               /\ UNCHANGED <<issued, last_renew>>
          ELSE /\ ESTCallEnds(FALSE)
               /\ UNCHANGED fs
    /\ UNCHANGED <<clock, ticks, crlVars, protocol, renewals, kept_backup, cfgVars, idx, statuses,
                   gets, passes, running, end_time, in_renewal, obsVars, outVars>>

\* lines 181 and 245: f.write(cert_data) and the end of the with block
WriteCert ==
    /\ pc = "write_cert"
    /\ \E o \in {"ok", "write_fail"} :
          IF o = "ok"
          THEN /\ fs' = [fs EXCEPT ![CertPath(idx)] = NewCert]
               /\ pc' = "open_key"
               /\ UNCHANGED <<issued, last_renew>>
          ELSE /\ ESTCallEnds(FALSE)
               /\ UNCHANGED fs
    /\ UNCHANGED <<clock, ticks, crlVars, protocol, renewals, kept_backup, cfgVars, idx, statuses,
                   gets, passes, running, end_time, in_renewal, obsVars, outVars>>

\* lines 183 and 247: open(key_path, 'wb')
OpenKey ==
    /\ pc = "open_key"
    /\ \E o \in {"ok", "open_fail"} :
          IF o = "ok"
          THEN /\ fs' = [fs EXCEPT ![KeyPath(idx)] = PartialF]
               /\ pc' = "write_key"
               /\ UNCHANGED <<issued, last_renew>>
          ELSE /\ ESTCallEnds(FALSE)
               /\ UNCHANGED fs
    /\ UNCHANGED <<clock, ticks, crlVars, protocol, renewals, kept_backup, cfgVars, idx, statuses,
                   gets, passes, running, end_time, in_renewal, obsVars, outVars>>

\* lines 184-192 and 248-256: f.write(key_pem), chmod, return True
WriteKey ==
    /\ pc = "write_key"
    /\ \E o \in {"ok", "write_fail"} :
          IF o = "ok"
          THEN /\ fs' = [fs EXCEPT ![KeyPath(idx)] = NewKey]
               /\ ESTCallEnds(TRUE)
          ELSE /\ ESTCallEnds(FALSE)
               /\ UNCHANGED fs
    /\ UNCHANGED <<clock, ticks, crlVars, protocol, renewals, kept_backup, cfgVars, idx, statuses,
                   gets, passes, running, end_time, in_renewal, obsVars, outVars>>

\* another process reads cert_path or key_path while the call is in progress
ReadFile(p) ==
    /\ pc \in {"open_cert", "write_cert", "open_key", "write_key"}
    /\ p \in {CertPath(idx), KeyPath(idx)}
    /\ observed' = [some |-> TRUE, path |-> p, bytes |-> fs[p],
                    old |-> IF p = CertPath(idx) THEN last_renew.pre_cert ELSE last_renew.pre_key,
                    new |-> IF p = CertPath(idx) THEN NewCert ELSE NewKey]
    /\ UNCHANGED <<clock, ticks, crlVars, fsVars, cfgVars, loopVars, obsVars, attempts, report,
                   token_call>>

NextWrite ==
    \/ \E c \in RenewTargets : ESTAnswer200(c)
    \/ OpenCert
    \/ WriteCert
    \/ OpenKey
    \/ WriteKey
    \/ \E p \in Paths : ReadFile(p)

SpecWrite == InitWrite /\ [][NextWrite]_vars

-----------------------------------------------------------------------------
(* StepCAClient.get_provisioner_token: the token command, its password file and
   its sub-process *)

\* step_ca.provisioner_password and the name NamedTemporaryFile gives the file
Password == "secret"
TempName == "tmp.pwd"

\* lines 150-165: the password goes to a temporary file whose name is passed
\* with --password-file; when creating, writing or closing the file raises,
\* the password goes to standard input and --password-file is "-".  The file
\* is "open" while NamedTemporaryFile holds it, "closed" after close().
MakePasswordFile(t, o) ==
    LET stdin == [t EXCEPT !.args = @ \o <<"--password-file", "-">>, !.input = Password]
    IN  IF o = "ok"
        THEN [t EXCEPT !.args = @ \o <<"--password-file", TempName>>, !.file = "closed"]
        ELSE IF o = "create_fail" THEN stdin
        ELSE IF o = "write_fail" THEN [stdin EXCEPT !.file = "open"]
        ELSE [stdin EXCEPT !.file = "closed"]

\* a variant of the finally block that removes the file only after a
\* successful command
TokenCleanupOnSuccess(t) ==
    IF t.file # "absent" /\ t.exit = "success" THEN [t EXCEPT !.file = "absent"] ELSE t

\* lines 169-175, the finally block: os.unlink of the temporary file when one
\* was created.  os.unlink is taken to remove the file; were it to raise, the
\* exception is logged and the file stays.
TokenCleanup(t) ==
    IF t.file # "absent" THEN [t EXCEPT !.file = "absent"] ELSE t

\* lines 131-165: the call builds the arguments of `step ca token` (135-139),
\* then the password options; provisioner_password may be unset
TokenBegin ==
    /\ token_call.pc = "idle"
    /\ token_call.n < MaxRenewals
    /\ \E pw \in BOOLEAN, o \in {"ok", "create_fail", "write_fail", "close_fail"} :
          LET t == [NoToken EXCEPT !.pc = "run", !.n = token_call.n + 1, 
                                  !.args = <<"step", "ca", "token", "subject",
                                             "--provisioner", "name">>]
          IN  token_call' = IF pw THEN MakePasswordFile(t, o) ELSE t
    /\ UNCHANGED <<clock, ticks, crlVars, fsVars, cfgVars, loopVars, obsVars, attempts,
                   observed, report>>

\* _run_step_command, line 64: subprocess.run starts `step` with the arguments,
\* which every process of the machine can read from now on
RunStep ==
    /\ token_call.pc = "run"
    /\ token_call' = [token_call EXCEPT !.pc = "running"]
    /\ UNCHANGED <<clock, ticks, crlVars, fsVars, cfgVars, loopVars, obsVars, attempts,
                   observed, report>>

\* _run_step_command, lines 64-99: the command exits with 0 or another code,
\* is killed at the 60 s timeout, or subprocess.run raises
StepExits ==
    /\ token_call.pc = "running"
    /\ \E x \in {"success", "nonzero", "timeout", "exception"} :
          token_call' = [token_call EXCEPT !.pc = "finally", !.exit = x]
    /\ UNCHANGED <<clock, ticks, crlVars, fsVars, cfgVars, loopVars, obsVars, attempts,
                   observed, report>>

\* lines 169-183: the finally block, then the token or None is returned
TokenReturn ==
    /\ token_call.pc = "finally"
    /\ token_call' = [TokenCleanup(token_call) EXCEPT
                         !.pc = "idle",
                         !.ret = IF token_call.exit = "success" THEN "token" ELSE "none"]
    /\ UNCHANGED <<clock, ticks, crlVars, fsVars, cfgVars, loopVars, obsVars, attempts,
                   observed, report>>

NextToken ==
    \/ TokenBegin
    \/ RunStep
    \/ StepExits
    \/ TokenReturn

\* the token adapter with its certificates on disk and no token command begun
InitToken ==
    /\ InitRenew
    /\ protocol = "JWK"

SpecToken == InitToken /\ [][NextToken]_vars

-----------------------------------------------------------------------------
(* The crl --refresh command: refresh_crl on the configured URLs, at any times *)

InitCRL ==
    /\ ObsIdle
    /\ clock = 0
    /\ ticks = 0
    /\ crl_cache = [u \in Urls |-> NoCrl]
    /\ crl_info_cache = [u \in Urls |-> NoInfo]
    /\ last_download_time = [u \in Urls |-> NoTime]
    /\ crl_file \in { [u \in Urls |-> IF u = ConfiguredCrlUrls[1] THEN x ELSE AbsentFile] :
                        x \in {AbsentFile, CrlBytes("pem", "CN=CA1", {})} }
    /\ crl_mtime \in { WrittenAt(crl_file, 0),
                      WrittenAt(crl_file, 0 - (CrlRefreshHours + 1) * 3600) }
    /\ calls = 0
    /\ last_call = NoCall
    /\ fetched_at = [u \in Urls |-> NoTime]
    /\ FsIdle
    /\ LoopIdle

Tick ==
    /\ ticks < MaxTicks
    /\ \E d \in TickSteps : clock' = clock + d
    /\ ticks' = ticks + 1
    /\ UNCHANGED <<crlVars, fsVars, cfgVars, loopVars, obsVars, outVars>>

Refresh(u) ==
    /\ calls < MaxCalls
    /\ \E dl \in DownloadOutcomes, sv \in SaveOutcomes :
          LET r == RefreshCrl(Manager, u, clock, dl, sv)
              fetched == r.net /\ dl.ok /\ r.ret.some
          IN  /\ crl_cache' = r.m.cache
              /\ crl_info_cache' = r.m.info
              /\ last_download_time' = r.m.last
              /\ crl_file' = r.m.file
              /\ crl_mtime' = r.m.mtime
              /\ last_call' = [made |-> TRUE, url |-> u, time |-> clock, net |-> r.net,
                               dl_ok |-> r.net /\ dl.ok, ret |-> r.ret,
                               cached |-> crl_cache[u], fetched |-> fetched_at[u],
                               parsed |-> r.net /\ dl.ok /\ ParseCrl(dl.body).some,
                               file |-> crl_file[u], last |-> last_download_time[u],
                               should |-> ShouldRefreshCrl(Manager, u, clock),
                               load |-> r.load]
              /\ fetched_at' = IF fetched THEN [fetched_at EXCEPT ![u] = SomeTime(clock)]
                               ELSE fetched_at
    /\ calls' = calls + 1
    /\ UNCHANGED <<clock, ticks, fsVars, cfgVars, loopVars, obsVars, outVars>>

NextCRL ==
    \/ Tick
    \/ \E i \in 1..Len(ConfiguredCrlUrls) : Refresh(ConfiguredCrlUrls[i])

SpecCRL == InitCRL /\ [][NextCRL]_vars

-----------------------------------------------------------------------------
(* check_all_certificates: one evaluation pass over the configured certificates *)

\* what the network and the disk do when one URL is refreshed during a pass
RefreshOutcomes ==
    { [dl |-> d, sv |-> "ok"] : d \in { x \in DownloadOutcomes : x.body.enc # "der" } }

NoOutcome == [dl |-> [ok |-> FALSE, body |-> AbsentFile], sv |-> "ok"]

\* one outcome for each URL of U
OutcomesFor(U) == { o \in [Urls -> RefreshOutcomes] : \A u \in Urls \ U : o[u] = NoOutcome }

\* the URLs check_certificate_status may refresh for the file at cert_path
UrlsConsulted(file) ==
    IF crl_enabled /\ LoadCertificate(file) THEN RevocationUrls(file) ELSE {}

\* one iteration of the loop of check_all_certificates (lines 270-272); when the
\* last certificate is done the caller goes on at after; delays are the times
\* that may pass between the two clock reads of the first evaluation (the later
\* ones read the clock twice within one second).  An exception leaves
\* check_all_certificates and its caller: no status list is returned.
EvalCert(after, delays) ==
    /\ pc = "eval"
    /\ idx \in Certs
    /\ \E d \in (IF idx = 1 THEN delays ELSE {0}),
          order \in Orders(UrlsConsulted(fs[CertPath(idx)])),
          out \in OutcomesFor(UrlsConsulted(fs[CertPath(idx)])) :
          LET r == CheckCertificateStatus(idx, fs[CertPath(idx)], cert_threshold[idx], service,
                                          crl_enabled, Manager, clock, clock + d, order, out, gets)
          IN  /\ clock' = clock + d
              /\ crl_cache' = r.m.cache
              /\ crl_info_cache' = r.m.info
              /\ last_download_time' = r.m.last
              /\ crl_file' = r.m.file
              /\ crl_mtime' = r.m.mtime
              /\ gets' = r.gets
              /\ IF r.raised
                 THEN /\ pc' = "raised"
                      /\ statuses' = <<>>
                      /\ idx' = idx
                 ELSE /\ statuses' = Append(statuses, r.status)
                      /\ pc' = IF idx = NumCerts THEN after ELSE "eval"
                      /\ idx' = IF idx = NumCerts THEN 1 ELSE idx + 1
    /\ UNCHANGED <<ticks, calls, last_call, fetched_at, fsVars, cfgVars, passes, running,
                   end_time, in_renewal, obsVars, outVars>>

ManyDays(n) == n * DaySeconds

\* certificates the first configured certificate may hold: expired, expiring
\* within the second, at the emergency and threshold boundaries, long-lived,
\* not yet valid; serial 1 is the one the CRLs list
FirstCertFiles ==
    { AbsentF, PartialF,
      CertF(1, 1, ManyDays(-10), ManyDays(-5), <<>>),
      CertF(1, 1, ManyDays(-10), 1, <<>>),
      CertF(1, 1, ManyDays(-10), ManyDays(7), <<>>),
      CertF(1, 1, ManyDays(-10), ManyDays(31), <<>>),
      CertF(1, 1, ManyDays(-10), ManyDays(60), <<>>),
      CertF(1, 1, ManyDays(-10), ManyDays(60), <<"u2">>),
      CertF(1, 1, ManyDays(1), ManyDays(60), <<>>) }

\* certificates the other configured certificates may hold
OtherCertFiles ==
    { CertF(2, 2, ManyDays(-10), ManyDays(60), <<"u2">>),
      CertF(1, 2, ManyDays(-10), ManyDays(20), <<>>) }

\* per-certificate thresholds: the attribute is missing (config.py), or present
Thresholds ==
    { [c \in Certs |-> NoAttr] }
        \cup { [c \in Certs |-> IF c = 1 THEN x ELSE IntAttr(DefaultThresholdDays)] :
                  x \in {NoneAttr, IntAttr(7)} }

Services ==
    { DefaultService,
      [default |-> IntAttr(10), emergency |-> 0, warning |-> 40] }

InitEval ==
    /\ ObsIdle
    /\ clock = 0
    /\ ticks = 0
    /\ crl_cache = [u \in Urls |-> NoCrl]
    /\ crl_info_cache = [u \in Urls |-> NoInfo]
    /\ last_download_time = [u \in Urls |-> NoTime]
    /\ crl_enabled \in BOOLEAN
    /\ crl_file \in { [u \in Urls |-> AbsentFile] } \cup
                    { [u \in Urls |-> IF u = "u1" THEN CrlBytes("pem", "CN=CA1", {1}) ELSE AbsentFile] :
                        x \in { y \in {TRUE} : crl_enabled } }
    /\ crl_mtime = WrittenAt(crl_file, 0)
    /\ calls = 0
    /\ last_call = NoCall
    /\ fetched_at = [u \in Urls |-> NoTime]
    /\ protocol = "JWK"
    /\ \E first \in FirstCertFiles, other \in OtherCertFiles :
          fs = [p \in Paths |-> IF p[2] = "cert" THEN (IF p[1] = 1 THEN first ELSE other)
                                ELSE IF p[2] = "key" THEN KeyF(p[1])
                                ELSE AbsentF]
    /\ issued = NumCerts
    /\ renewals = 0
    /\ last_renew = NoRenew
    /\ kept_backup = [c \in Certs |-> NoFile]
    /\ cert_threshold \in Thresholds
    /\ service \in Services
    /\ pc = "eval"
    /\ idx = 1
    /\ statuses = <<>>
    /\ gets = [u \in Urls |-> 0]
    /\ passes = 1
    /\ running = FALSE
    /\ end_time = 0
    /\ in_renewal = [c \in Certs |-> 0]

\* time passes between the evaluation of two certificates
Elapse ==
    /\ pc = "eval"
    /\ ticks < MaxPassTicks
    /\ \E d \in PassSteps : clock' = clock + d
    /\ ticks' = ticks + 1
    /\ UNCHANGED <<crlVars, fsVars, cfgVars, loopVars, obsVars, outVars>>

\* status_report, line 192, reads status.renewal_threshold_percent; the
\* CertificateStatus dataclass (certificate_monitor.py lines 16-29) has no such
\* field, and reading it raises AttributeError
HasThresholdPercent(st) == FALSE

\* status_report, lines 178-210: one entry for each status, in the order of
\* the list; the names stand for the entries
StatusReport(sts) ==
    IF \E i \in 1..Len(sts) : ~HasThresholdPercent(sts[i])
    THEN [made |-> TRUE, raised |-> TRUE, certificates |-> <<>>]
    ELSE [made |-> TRUE, raised |-> FALSE, certificates |-> [i \in 1..Len(sts) |-> sts[i].name]]

\* the status command: status_report goes on after check_all_certificates
\* returned; an exception leaves status_report and the command
ReportStatuses ==
    /\ pc = "report"
    /\ report' = StatusReport(statuses)
    /\ pc' = IF report'.raised THEN "raised" ELSE "reported"
    /\ UNCHANGED <<clock, ticks, crlVars, fsVars, cfgVars, idx, statuses, gets, passes, running,
                   end_time, in_renewal, obsVars, attempts, observed, token_call>>

NextEval ==
    \/ Elapse
    \/ EvalCert("report", {0, 1})

SpecEval == InitEval /\ [][NextEval]_vars

\* the status command: check_all_certificates, then the report
NextStatus ==
    \/ EvalCert("report", {0})
    \/ ReportStatuses

SpecStatus == InitEval /\ [][NextStatus]_vars

-----------------------------------------------------------------------------
(* check_certificate_revocation, called at any times on any certificate *)

\* certificates whose revocation is checked: serial 1 is the one the CRLs list
RevokeCerts ==
    { CertF(1, 1, 0, ManyDays(CertLifetimeDays), <<>>),
      CertF(1, 1, 0, ManyDays(CertLifetimeDays), <<"u2">>),
      CertF(2, 2, 0, ManyDays(CertLifetimeDays), <<"u2">>) }

InitRevoke ==
    /\ ObsIdle
    /\ clock = 0
    /\ ticks = 0
    /\ crl_cache = [u \in Urls |-> NoCrl]
    /\ crl_info_cache = [u \in Urls |-> NoInfo]
    /\ last_download_time = [u \in Urls |-> NoTime]
    /\ crl_file \in { [u \in Urls |-> IF u = "u1" THEN x ELSE AbsentFile] :
                        x \in {AbsentFile, CrlBytes("pem", "CN=CA1", {1})} }
    /\ crl_mtime = WrittenAt(crl_file, 0)
    /\ calls = 0
    /\ last_call = NoCall
    /\ fetched_at = [u \in Urls |-> NoTime]
    /\ FsIdle
    /\ LoopIdle

\* a minute passes between two checks
Wait ==
    /\ ticks < MaxPassTicks
    /\ \E d \in PassSteps : clock' = clock + d
    /\ ticks' = ticks + 1
    /\ UNCHANGED <<crlVars, fsVars, cfgVars, loopVars, obsVars, outVars>>

CheckRevocation ==
    /\ calls < MaxChecks
    /\ \E cert \in RevokeCerts, enabled \in BOOLEAN, configured \in {<<>>, ConfiguredCrlUrls} :
          \E order \in Orders(RevocationUrlsOf(configured, cert)),
             out \in OutcomesFor(RevocationUrlsOf(configured, cert)) :
             LET r == CheckCertificateRevocation(Manager, cert, enabled, configured, order,
                                                 clock, out, gets)
             IN  /\ crl_cache' = r.m.cache
                 /\ crl_info_cache' = r.m.info
                 /\ last_download_time' = r.m.last
                 /\ crl_file' = r.m.file
                 /\ crl_mtime' = r.m.mtime
                 /\ last_check' = [made |-> TRUE, enabled |-> enabled, serial |-> cert.serial,
                                   configured |-> configured, cdp |-> cert.cdp,
                                   seen |-> r.seen, rev |-> r.rev]
    /\ calls' = calls + 1
    /\ UNCHANGED <<clock, ticks, last_call, fetched_at, fsVars, cfgVars, loopVars,
                   signal_at, boot, outVars>>

NextRevoke ==
    \/ Wait
    \/ CheckRevocation

SpecRevoke == InitRevoke /\ [][NextRevoke]_vars

-----------------------------------------------------------------------------
(* The daemon command: run_daemon, run_once and check_and_renew_certificates *)

\* verify_certificate: `step certificate verify`; under EST _step_cli_path is
\* None (step_ca_client.py line 26), building the command line raises inside
\* _run_step_command, which reports failure
VerifyCertificate(proto, f, c, outcome) ==
    /\ Exists(f, CertPath(c))
    /\ proto # "EST"
    /\ outcome = "ok"

\* a variant of the annotation that records no failed renewal
AnnotateStatusQuiet(st, renewed, verified) ==
    IF renewed /\ verified
    THEN [st EXCEPT !.needs_renewal = FALSE, !.error_message = ""]
    ELSE st

\* a variant of the annotation that takes a renewed certificate as verified
AnnotateStatusUnverified(st, renewed, verified) ==
    IF renewed
    THEN [st EXCEPT !.needs_renewal = FALSE, !.error_message = ""]
    ELSE [st EXCEPT !.error_message = "Certificate renewal failed"]

\* check_and_renew_certificates, lines 99-114: the status after the renewal
AnnotateStatus(st, renewed, verified) ==
    IF renewed
    THEN IF verified
         THEN [st EXCEPT !.needs_renewal = FALSE, !.error_message = ""]
         ELSE [st EXCEPT !.error_message = "Certificate verification failed after renewal"]
    ELSE [st EXCEPT !.error_message = "Certificate renewal failed"]

\* a variant call that returns at once, leaving the renewal running
CallInBackground(then) == "renew"

\* renew_certificate is an ordinary call: the pass continues when it returns
CallAndWait(then) == then

\* _signal_handler: SIGINT or SIGTERM, any time after __init__
Signal ==
    /\ pc # "stopped"
    /\ running
    /\ running' = FALSE
    /\ signal_at' = [some |-> TRUE,
                     pc |-> IF pc \in {"renewing", "sleep", "sleeping"} THEN pc ELSE "other",
                     idx |-> IF pc = "renewing" THEN idx ELSE 0,
                     passes |-> passes, slept |-> 0]
    /\ UNCHANGED <<clock, ticks, crlVars, fsVars, cfgVars, pc, idx, statuses, gets, passes,
                   end_time, in_renewal, boot, last_check, outVars>>

\* bootstrap_ca: `step ca bootstrap` under JWK, the cacerts request under EST
BootstrapCa(proto, outcome) == outcome = "ok"

\* get_ca_info: None only under JWK when `step ca health` fails; under EST a
\* dictionary is returned whether or not cacerts could be reached
GetCaInfo(proto, outcome) ==
    IF proto = "EST"
    THEN [none |-> FALSE, status |-> IF outcome = "ok" THEN "healthy" ELSE "unhealthy"]
    ELSE IF outcome = "ok"
         THEN [none |-> FALSE, status |-> "healthy"]
         ELSE [none |-> TRUE, status |-> ""]

\* the daemon command of main.py: initialize, then exit 1 or run_daemon
Initialize ==
    /\ pc = "created"
    /\ \E b \in {"ok", "fail"}, p \in {"ok", "fail"} :
          IF ~BootstrapCa(protocol, b)
          THEN /\ boot' = [done |-> TRUE, bootstrap |-> b, probe |-> ""]
               /\ pc' = "exit1"
          ELSE /\ boot' = [done |-> TRUE, bootstrap |-> b, probe |-> p]
               /\ pc' = IF GetCaInfo(protocol, p).none THEN "exit1" ELSE "initialized"
    /\ UNCHANGED <<clock, ticks, crlVars, fsVars, cfgVars, idx, statuses, gets, passes,
                   running, end_time, in_renewal, signal_at, last_check, outVars>>

\* run_daemon, line 150
DaemonStart ==
    /\ pc = "initialized"
    /\ running' = TRUE
    /\ pc' = "loop"
    /\ boot' = NoBoot
    /\ UNCHANGED <<clock, ticks, crlVars, fsVars, cfgVars, idx, statuses, gets, passes,
                   end_time, in_renewal, signal_at, last_check, outVars>>

\* run_daemon, line 152, and the start of check_and_renew_certificates
StartPass ==
    /\ pc = "loop"
    /\ running
    /\ passes < MaxPasses
    /\ pc' = "eval"
    /\ idx' = 1
    /\ statuses' = <<>>
    /\ gets' = [u \in Urls |-> 0]
    /\ passes' = passes + 1
    /\ attempts' = [c \in Certs |-> NoAttempt]
    /\ UNCHANGED <<clock, ticks, crlVars, fsVars, cfgVars, running, end_time, in_renewal,
                   obsVars, observed, token_call, report>>

\* run_daemon, lines 152 and 170: the loop ends
DaemonStop ==
    /\ pc = "loop"
    /\ ~running
    /\ pc' = "stopped"
    /\ UNCHANGED <<clock, ticks, crlVars, fsVars, cfgVars, idx, statuses, gets, passes,
                   running, end_time, in_renewal, obsVars, outVars>>

\* check_and_renew_certificates, lines 88-89: a status that needs no renewal
SkipRenew ==
    /\ pc = "renew"
    /\ idx <= Len(statuses)
    /\ ~statuses[idx].needs_renewal
    /\ idx' = idx + 1
    /\ UNCHANGED <<clock, ticks, crlVars, fsVars, cfgVars, pc, statuses, gets, passes,
                   running, end_time, in_renewal, obsVars, outVars>>

\* a variant of the renewal loop without the test of line 89
RenewBeginAnyway ==
    /\ pc = "renew"
    /\ idx <= Len(statuses)
    /\ issued < NumCerts + MaxIssued
    /\ in_renewal' = [in_renewal EXCEPT ![statuses[idx].name] = @ + 1]
    /\ pc' = "renewing"
    /\ idx' = idx
    /\ attempts' = [attempts EXCEPT ![statuses[idx].name].n = @ + 1]
    /\ UNCHANGED <<clock, ticks, crlVars, fsVars, cfgVars, statuses, gets, passes,
                   running, end_time, obsVars, observed, token_call, report>>

\* check_and_renew_certificates, line 99: renew_certificate is called
RenewBegin ==
    /\ pc = "renew"
    /\ idx <= Len(statuses)
    /\ statuses[idx].needs_renewal
    /\ issued < NumCerts + MaxIssued
    /\ in_renewal' = [in_renewal EXCEPT ![statuses[idx].name] = @ + 1]
    /\ pc' = CallAndWait("renewing")
    /\ idx' = IF pc' = "renewing" THEN idx ELSE idx + 1
    /\ attempts' = [attempts EXCEPT ![statuses[idx].name].n = @ + 1]
    /\ UNCHANGED <<clock, ticks, crlVars, fsVars, cfgVars, statuses, gets, passes,
                   running, end_time, obsVars, observed, token_call, report>>

\* what a renewal made by the daemon meets: under EST a refused or failed
\* request or a failed write of the certificate or the key, under JWK commands
\* that fail after the backups were made
LoopRenewEnvs(proto) ==
    { x \in RenewEnvs(proto) :
        /\ x.e.bk = "ok"
        /\ x.fault \in {"none", "post_exception", "post_status", "cert_write", "key_write"} }

\* a variant of the return from renew_certificate that puts back the files of
\* before the call when the verification fails; `step certificate verify`
\* succeeds or fails
RenewReturnRollback ==
    /\ pc = "renewing"
    /\ \E env \in LoopRenewEnvs(protocol),
          v \in {"ok", "fail"} :
          LET c == statuses[idx].name
              r == RenewCertificate(protocol, fs, c, issued + 1, clock, env.fault, env.e)
              verified == r.ok /\ VerifyCertificate(protocol, r.fs, c, v)
          IN  /\ fs' = IF r.ok /\ ~verified THEN fs ELSE r.fs
              /\ last_renew' = [made |-> TRUE, cert |-> c, ok |-> r.ok,
                                pre_cert |-> fs[CertPath(c)], pre_key |-> fs[KeyPath(c)],
                                pre_backup |-> fs[CertBackupPath(c)],
                                non200 |-> ESTNon200(protocol, fs, c, env.fault),
                                pass |-> passes, step |-> StepCommands(protocol, r)]
              /\ kept_backup' = [kept_backup EXCEPT ![c] = KeptAfter(kept_backup[c], fs, c, r)]
              /\ statuses' = [statuses EXCEPT ![idx] = AnnotateStatus(@, r.ok, verified)]
              /\ in_renewal' = [in_renewal EXCEPT ![c] = @ - 1]
              /\ attempts' = [attempts EXCEPT
                                 ![c].ok = r.ok, ![c].verified = verified]
    /\ issued' = issued + 1
    /\ renewals' = renewals + 1
    /\ idx' = idx + 1
    /\ pc' = "renew"
    /\ UNCHANGED <<clock, ticks, crlVars, protocol, cfgVars, gets, passes, running, end_time,
                   obsVars, observed, token_call, report>>

\* check_and_renew_certificates, lines 99-121: renew_certificate returns, the
\* certificate is verified and the status annotated; `step certificate verify`
\* succeeds or fails
RenewReturn ==
    /\ pc = "renewing"
    /\ \E env \in LoopRenewEnvs(protocol),
          v \in {"ok", "fail"} :
          LET c == statuses[idx].name
              r == RenewCertificate(protocol, fs, c, issued + 1, clock, env.fault, env.e)
              verified == r.ok /\ VerifyCertificate(protocol, r.fs, c, v)
          IN  /\ fs' = r.fs
              /\ last_renew' = [made |-> TRUE, cert |-> c, ok |-> r.ok,
                                pre_cert |-> fs[CertPath(c)], pre_key |-> fs[KeyPath(c)],
                                pre_backup |-> fs[CertBackupPath(c)],
                                non200 |-> ESTNon200(protocol, fs, c, env.fault),
                                pass |-> passes, step |-> StepCommands(protocol, r)]
              /\ kept_backup' = [kept_backup EXCEPT ![c] = KeptAfter(kept_backup[c], fs, c, r)]
              /\ statuses' = [statuses EXCEPT ![idx] = AnnotateStatus(@, r.ok, verified)]
              /\ in_renewal' = [in_renewal EXCEPT ![c] = @ - 1]
              /\ attempts' = [attempts EXCEPT
                                 ![c].ok = r.ok, ![c].verified = verified]
    /\ issued' = issued + 1
    /\ renewals' = renewals + 1
    /\ idx' = idx + 1
    /\ pc' = "renew"
    /\ UNCHANGED <<clock, ticks, crlVars, protocol, cfgVars, gets, passes, running, end_time,
                   obsVars, observed, token_call, report>>

\* a variant of the end of a pass that leaves the loop when the pass raised or
\* a renewal failed
EndPassGivingUp ==
    /\ \/ pc = "renew" /\ idx > Len(statuses)
       \/ pc = "raised"
    /\ pc' = IF pc = "raised" \/ \E i \in 1..Len(statuses) : statuses[i].error_message # ""
             THEN "stopped" ELSE "sleep"
    /\ end_time' = clock + CheckIntervalMinutes * 60
    /\ UNCHANGED <<clock, ticks, crlVars, fsVars, cfgVars, idx, statuses, gets, passes,
                   running, in_renewal, obsVars, outVars>>

\* check_and_renew_certificates returns the statuses (line 132), or an exception
\* reached run_once (lines 139-141); run_daemon computes end_time (line 159)
EndPass ==
    /\ \/ pc = "renew" /\ idx > Len(statuses)
       \/ pc = "raised"
    /\ pc' = "sleep"
    /\ end_time' = clock + CheckIntervalMinutes * 60
    /\ UNCHANGED <<clock, ticks, crlVars, fsVars, cfgVars, idx, statuses, gets, passes,
                   running, in_renewal, obsVars, outVars>>

\* a variant of the condition of the sleep loop that ignores running
SleepGoesOnDeaf(now, e, r) == now < e

\* run_daemon, line 161: the condition of the sleep loop
SleepGoesOn(now, e, r) == now < e /\ r

\* run_daemon, lines 161-162: time.sleep(60) is called
SubSleep ==
    /\ pc = "sleep"
    /\ SleepGoesOn(clock, end_time, running)
    /\ pc' = "sleeping"
    /\ UNCHANGED <<clock, ticks, crlVars, fsVars, cfgVars, idx, statuses, gets, passes,
                   running, end_time, in_renewal, obsVars, outVars>>

\* run_daemon, line 162: time.sleep(60) returns; a signal handled meanwhile does
\* not shorten it
SleepReturn ==
    /\ pc = "sleeping"
    /\ clock' = clock + 60
    /\ pc' = "sleep"
    /\ signal_at' = IF signal_at.some THEN [signal_at EXCEPT !.slept = @ + 1] ELSE signal_at
    /\ UNCHANGED <<ticks, crlVars, fsVars, cfgVars, idx, statuses, gets, passes,
                   running, end_time, in_renewal, boot, last_check, outVars>>

\* run_daemon, line 161: the sleep loop ends
WakeUp ==
    /\ pc = "sleep"
    /\ ~SleepGoesOn(clock, end_time, running)
    /\ pc' = "loop"
    /\ UNCHANGED <<clock, ticks, crlVars, fsVars, cfgVars, idx, statuses, gets, passes,
                   running, end_time, in_renewal, obsVars, outVars>>

\* what the certificates of the daemon hold at start: long-lived, inside the
\* 30-day threshold, or missing; certificates after the second start inside
\* the threshold
LoopCertFiles(c) ==
    IF c > 2 THEN { CertF(c, c, ManyDays(-70), ManyDays(20), <<>>) }
    ELSE { CertF(c, c, ManyDays(-10), ManyDays(60), <<>>),
           CertF(c, c, ManyDays(-70), ManyDays(20), <<>>),
           AbsentF }

InitLoop ==
    /\ ObsIdle
    /\ clock = 0
    /\ ticks = 0
    /\ CrlIdle
    /\ protocol \in {"JWK", "EST"}
    /\ \E files \in [Certs -> UNION { LoopCertFiles(c) : c \in Certs }] :
          /\ \A c \in Certs : files[c] \in LoopCertFiles(c)
          /\ fs = FilesOf([c \in Certs |-> [cert |-> files[c], key |-> KeyF(c)]])
    /\ issued = NumCerts
    /\ renewals = 0
    /\ last_renew = NoRenew
    /\ kept_backup = [c \in Certs |-> NoFile]
    /\ cert_threshold \in { [c \in Certs |-> NoAttr], [c \in Certs |-> IntAttr(DefaultThresholdDays)] }
    /\ service = DefaultService
    /\ crl_enabled = FALSE
    /\ pc = "created"
    /\ idx = 0
    /\ statuses = <<>>
    /\ gets = [u \in Urls |-> 0]
    /\ passes = 0
    /\ running = FALSE
    /\ end_time = 0
    /\ in_renewal = [c \in Certs |-> 0]

NextLoop ==
    \/ Initialize
    \/ Signal
    \/ DaemonStart
    \/ StartPass
    \/ DaemonStop
    \/ EvalCert("renew", {0})
    \/ SkipRenew
    \/ RenewBegin
    \/ RenewReturn
    \/ EndPass
    \/ SubSleep
    \/ SleepReturn
    \/ WakeUp

SpecLoop == InitLoop /\ [][NextLoop]_vars

-----------------------------------------------------------------------------
(* The check command: initialize, then run_once and the exit code *)

\* run_once: False when check_and_renew_certificates raised, True otherwise
RunOnce(raised) == ~raised

\* main.py, line 56, and the start of check_and_renew_certificates
StartCheck ==
    /\ pc = "initialized"
    /\ pc' = "eval"
    /\ idx' = 1
    /\ statuses' = <<>>
    /\ gets' = [u \in Urls |-> 0]
    /\ passes' = passes + 1
    /\ attempts' = [c \in Certs |-> NoAttempt]
    /\ boot' = NoBoot
    /\ UNCHANGED <<clock, ticks, crlVars, fsVars, cfgVars, running, end_time, in_renewal,
                   signal_at, last_check, observed, token_call, report>>

\* main.py, lines 56-60: the command exits 0 when run_once returned True, else 1
CheckExit ==
    /\ \/ pc = "renew" /\ idx > Len(statuses)
       \/ pc = "raised"
    /\ pc' = IF RunOnce(pc = "raised") THEN "exit0" ELSE "exit1"
    /\ UNCHANGED <<clock, ticks, crlVars, fsVars, cfgVars, idx, statuses, gets, passes,
                   running, end_time, in_renewal, obsVars, outVars>>

NextCheck ==
    \/ Initialize
    \/ StartCheck
    \/ EvalCert("renew", {0})
    \/ SkipRenew
    \/ RenewBegin
    \/ RenewReturn
    \/ CheckExit

SpecCheck == InitLoop /\ [][NextCheck]_vars

\* the steps of the process itself: everything but the arrival of a signal
DaemonStep ==
    \/ Initialize
    \/ DaemonStart
    \/ StartPass
    \/ DaemonStop
    \/ EvalCert("renew", {0})
    \/ SkipRenew
    \/ RenewBegin
    \/ RenewReturn
    \/ EndPass
    \/ SubSleep
    \/ SleepReturn
    \/ WakeUp

\* the process is scheduled, and every call and every sleep returns
SpecLoopFair == SpecLoop /\ WF_vars(DaemonStep)

-----------------------------------------------------------------------------
(* The daemon command with signals that arrive before run_daemon *)

\* _signal_handler (lines 38-41) while initialize runs or before run_daemon is
\* entered: the handlers are installed by __init__ (line 31); running is False
\* (line 30) and the handler sets it to False
SignalBeforeLoop ==
    /\ pc \in {"created", "initialized"}
    /\ ~signal_at.some
    /\ running' = FALSE
    /\ signal_at' = [NoSignal EXCEPT !.some = TRUE, !.pc = "init", !.passes = passes]
    /\ UNCHANGED <<clock, ticks, crlVars, fsVars, cfgVars, pc, idx, statuses, gets, passes,
                   end_time, in_renewal, boot, last_check, outVars>>

NextBoot ==
    \/ NextLoop
    \/ SignalBeforeLoop

SpecBoot == InitLoop /\ [][NextBoot]_vars

-----------------------------------------------------------------------------
(* Claims about renewal and its backups (SpecRenew) *)

\* C1: a renewal that returns failure leaves the bytes at cert_path and
\* key_path as they were before the call.
C1_FailedRenewalLeavesFiles ==
    (last_renew.made /\ ~last_renew.ok) =>
        /\ fs[CertPath(last_renew.cert)] = last_renew.pre_cert
        /\ fs[KeyPath(last_renew.cert)] = last_renew.pre_key

\* C5 as stated: after a successful renewal of an existing certificate, under
\* either adapter, <cert_path>.backup holds what cert_path held before it, until
\* the next successful renewal.
C5_BackupHoldsOldCertEitherAdapter ==
    \A c \in Certs :
        kept_backup[c].some => fs[CertBackupPath(c)] = kept_backup[c].bytes

\* C5 amended: under the EST adapter, after a successful re-enrollment of an
\* existing certificate, <cert_path>.backup holds what cert_path held before it,
\* until the next renewal of that certificate that the CA answers with HTTP 200.
C5_ESTBackupHoldsOldCert ==
    \A c \in Certs :
        (protocol = "EST" /\ kept_backup[c].some /\ kept_backup[c].fresh) =>
            /\ Exists(fs, CertBackupPath(c))
            /\ fs[CertBackupPath(c)] = kept_backup[c].bytes

\* C5 witness: an EST re-enrollment succeeded, a later renewal of the same
\* certificate failed, and the backup still holds the older certificate.
C5_Witness ==
    /\ protocol = "EST"
    /\ last_renew.made /\ ~last_renew.ok
    /\ kept_backup[last_renew.cert].some /\ kept_backup[last_renew.cert].fresh
    /\ fs[CertBackupPath(last_renew.cert)].kind = "cert"

-----------------------------------------------------------------------------
(* Claims about refresh_crl (SpecCRL) *)

\* C7: for every URL with a cache entry, the bytes of its cache file parse to a
\* CRL whose issuer is the issuer of the cached entry.
C7_CacheFileMatchesEntry ==
    \A u \in Urls :
        crl_info_cache[u].some =>
            /\ LoadCrlFromFile(crl_file[u]).some
            /\ LoadCrlFromFile(crl_file[u]).issuer = crl_info_cache[u].issuer

\* C8: once a refresh_crl(u) has downloaded and returned a CRL, a refresh_crl(u)
\* called less than 60 seconds later uses no network and returns the CRL held
\* in memory.
C8_NoDownloadWithinWindow ==
    (/\ last_call.made
     /\ last_call.fetched.some
     /\ last_call.time - last_call.fetched.t < 60) =>
        /\ ~last_call.net
        /\ last_call.ret.some
        /\ last_call.ret = last_call.cached

\* C8 witness: a call 59 seconds after a successful download.
C8_Witness ==
    /\ last_call.made
    /\ last_call.fetched.some
    /\ last_call.time - last_call.fetched.t = 59
    /\ ~last_call.net

-----------------------------------------------------------------------------
(* Claims about evaluation (SpecEval) *)

\* C2: every status check_certificate_status returns for a certificate it could
\* read has needs_renewal exactly when it is revoked or its days_until_expiry
\* is at most the effective threshold.
C2_NeedsRenewalIff ==
    \A i \in 1..Len(statuses) :
        statuses[i].has_expiry =>
            (statuses[i].needs_renewal <=>
                (statuses[i].is_revoked \/ statuses[i].days <= statuses[i].threshold))

\* C2 witness: a revoked certificate far from expiry, and so in need of renewal.
C2_Witness ==
    \E i \in 1..Len(statuses) :
        /\ statuses[i].has_expiry
        /\ statuses[i].is_revoked
        /\ statuses[i].days > statuses[i].threshold
        /\ statuses[i].needs_renewal

\* C3: every status check_certificate_status returns has is_valid exactly when
\* not_before <= now <= not_after and the certificate is not revoked.
C3_IsValidIff ==
    \A i \in 1..Len(statuses) :
        /\ statuses[i].has_expiry =>
              (statuses[i].is_valid <=>
                  (/\ statuses[i].nb <= statuses[i].now
                   /\ statuses[i].now <= statuses[i].na
                   /\ ~statuses[i].is_revoked))
        /\ ~statuses[i].has_expiry => ~statuses[i].is_valid

\* C3 witness: a certificate inside its validity period that is revoked, and so
\* not valid.
C3_Witness ==
    \E i \in 1..Len(statuses) :
        /\ statuses[i].has_expiry
        /\ statuses[i].nb <= statuses[i].now /\ statuses[i].now <= statuses[i].na
        /\ statuses[i].is_revoked
        /\ ~statuses[i].is_valid

\* C9: within one evaluation pass each CRL URL is downloaded at most once.
C9_EachUrlContactedAtMostOnce ==
    \A u \in Urls : gets[u] <= 1

-----------------------------------------------------------------------------
(* Claims about the daemon and its passes (SpecLoop) *)

\* C4: at no time are two renewals of the same certificate in progress.
C4_OneRenewalPerCert ==
    \A c \in Certs : in_renewal[c] <= 1

\* C4 witness: a certificate is being renewed in the second pass, after an
\* earlier renewal of the same certificate has returned.
C4_Witness ==
    /\ passes = 2
    /\ pc = "renewing"
    /\ last_renew.made
    /\ in_renewal[last_renew.cert] = 1

\* C6 as stated: in every status, after evaluation and after the renewal
\* attempts have annotated it, error_message is non-empty exactly when
\* renewal_reason is error.
C6_ErrorMessageIffErrorReason ==
    \A i \in 1..Len(statuses) :
        (statuses[i].error_message # "") <=> (statuses[i].reason = "error")

\* the statuses of the pass that no renewal attempt has annotated yet
AsEvaluated(i) ==
    \/ pc = "eval"
    \/ pc \in {"renew", "renewing"} /\ i >= idx

\* C6 amended: in every status as check_certificate_status returned it,
\* error_message is non-empty exactly when renewal_reason is error, and a status
\* with renewal_reason error has needs_renewal true.
C6_EvaluatedErrorMessageIffErrorReason ==
    \A i \in 1..Len(statuses) :
        AsEvaluated(i) =>
            /\ (statuses[i].error_message # "") <=> (statuses[i].reason = "error")
            /\ statuses[i].reason = "error" => statuses[i].needs_renewal

\* C6 witness: the status of a certificate that could not be loaded, before
\* its renewal is attempted.
C6_Witness ==
    \E i \in 1..Len(statuses) :
        /\ AsEvaluated(i)
        /\ statuses[i].reason = "error"
        /\ statuses[i].error_message = "Failed to load certificate"

\* C10: a pass that has ended has returned one status for every configured
\* certificate, whatever failed while evaluating or renewing one of them.
C10_PassReturnsEveryStatus ==
    pc = "sleep" => Len(statuses) = NumCerts

\* C11: a signal that arrives while the renewal of certificate i is in
\* progress lets that renewal finish, and no renewal of a later certificate of
\* the pass is started.
C11_NoLaterRenewalAfterSignal ==
    (/\ signal_at.some
     /\ signal_at.pc = "renewing"
     /\ signal_at.passes = passes
     /\ pc = "renewing") => idx = signal_at.idx

C13_RaisedPassWaitsFiveMinutes ==
    [][(pc = "raised" /\ running /\ pc' = "sleep") => end_time' = clock' + RetryDelay]_vars

\* C14: when bootstrapping fails or the CA probe fails, the command exits with
\* status 1 and neither a pass nor the daemon loop is started.
C14_FailedProbeFailsInitialize ==
    (boot.done /\ (boot.bootstrap = "fail" \/ boot.probe = "fail")) =>
        /\ pc = "exit1"
        /\ passes = 0
        /\ ~running

-----------------------------------------------------------------------------
(* Claims about failed and unparseable downloads (SpecCRL) *)

\* C15, first part: when the download fails, refresh_crl returns the CRL cached
\* for the URL, in memory or else in the cache file, if there is one, and
\* nothing otherwise.
C15_FailedDownloadFallsBack ==
    (last_call.made /\ last_call.net /\ ~last_call.dl_ok) =>
        IF last_call.cached.some
        THEN last_call.ret = last_call.cached
        ELSE last_call.ret = LoadCrlFromFile(last_call.file)

\* C16: when the downloaded bytes do not parse and the cache file held a
\* parseable CRL, the file still holds it and refresh_crl returns it.
C16_UnparseableDownloadKeepsCache ==
    (/\ last_call.made
     /\ last_call.dl_ok
     /\ ~last_call.parsed
     /\ LoadCrlFromFile(last_call.file).some) =>
        /\ crl_file[last_call.url] = last_call.file
        /\ last_call.ret = LoadCrlFromFile(last_call.file)

-----------------------------------------------------------------------------
(* Claims about check_certificate_revocation (SpecRevoke) *)

\* the positions of the consulted URLs whose CRL lists the serial
C17_Hits ==
    { i \in 1..Len(last_check.seen) :
        last_check.seen[i].ret.some /\ last_check.serial \in last_check.seen[i].ret.revoked }

\* C17: check_certificate_revocation reports revoked exactly when the CRL
\* obtained for a consulted URL lists the serial; the URLs are those configured
\* and those of the certificate, each consulted at most once, and none after
\* the first that lists the serial; disabled checking, an empty URL set and
\* CRLs that do not list the serial all give not revoked.
C17_RevokedIffListed ==
    last_check.made =>
        LET all == Range(last_check.configured) \cup Range(last_check.cdp)
            consulted == { last_check.seen[i].url : i \in 1..Len(last_check.seen) }
        IN  /\ last_check.rev.is_revoked <=> C17_Hits # {}
            /\ last_check.rev.is_revoked =>
                  /\ C17_Hits = {Len(last_check.seen)}
                  /\ last_check.rev.crl_source = last_check.seen[Len(last_check.seen)].url
            /\ consulted \subseteq all
            /\ Cardinality(consulted) = Len(last_check.seen)
            /\ (last_check.enabled /\ ~last_check.rev.is_revoked) => consulted = all
            /\ ~last_check.enabled => ~last_check.rev.is_revoked /\ last_check.seen = <<>>
            /\ all = {} => ~last_check.rev.is_revoked

\* C17 witness: of two URLs the first one consulted lists the serial and the
\* second is not consulted.
C17_Witness ==
    /\ last_check.made
    /\ last_check.rev.is_revoked
    /\ Len(last_check.seen) = 1
    /\ Cardinality(Range(last_check.configured) \cup Range(last_check.cdp)) = 2

-----------------------------------------------------------------------------
(* Claims about the reported reason (SpecEval) *)

\* C18: a certificate past its not_after is reported with renewal_reason
\* expired, not valid and in need of renewal.
C18_ExpiredReported ==
    \A i \in 1..Len(statuses) :
        (statuses[i].has_expiry /\ statuses[i].days < 0) =>
            /\ statuses[i].reason = "expired"
            /\ ~statuses[i].is_valid
            /\ statuses[i].needs_renewal

\* C19: a certificate found in a CRL is reported revoked, in need of renewal
\* and with renewal_reason revoked, naming the CRL it was found in.
C19_RevokedReported ==
    \A i \in 1..Len(statuses) :
        statuses[i].is_revoked =>
            /\ statuses[i].needs_renewal
            /\ statuses[i].reason = "revoked"
            /\ statuses[i].crl_source \in Urls

-----------------------------------------------------------------------------
(* Claims about a refused re-enrollment (SpecLoop) *)

\* the most recent renewal of the current pass was an EST re-enrollment of an
\* existing certificate that the CA answered with a status other than 200
C20_Refused ==
    /\ last_renew.made
    /\ last_renew.non200
    /\ last_renew.pass = passes
    /\ pc \in {"renew", "renewing", "sleep", "sleeping", "loop", "stopped"}

\* C20 as stated: after a refused re-enrollment cert_path and key_path are
\* unchanged, <cert_path>.backup is present with the bytes of the current
\* certificate, and the status needs renewal and carries an error message.
C20_RefusedKeepsFilesAndBackup ==
    C20_Refused =>
        /\ fs[CertPath(last_renew.cert)] = last_renew.pre_cert
        /\ fs[KeyPath(last_renew.cert)] = last_renew.pre_key
        /\ Exists(fs, CertBackupPath(last_renew.cert))
        /\ fs[CertBackupPath(last_renew.cert)] = fs[CertPath(last_renew.cert)]
        /\ \A i \in 1..Len(statuses) :
              statuses[i].name = last_renew.cert =>
                  statuses[i].needs_renewal /\ statuses[i].error_message # ""

\* C20 amended: after a refused re-enrollment cert_path, key_path and
\* <cert_path>.backup are as they were before the attempt, and the status needs
\* renewal and carries the message of a failed renewal.
C20_RefusedKeepsFiles ==
    C20_Refused =>
        /\ fs[CertPath(last_renew.cert)] = last_renew.pre_cert
        /\ fs[KeyPath(last_renew.cert)] = last_renew.pre_key
        /\ fs[CertBackupPath(last_renew.cert)] = last_renew.pre_backup
        /\ \A i \in 1..Len(statuses) :
              statuses[i].name = last_renew.cert =>
                  /\ statuses[i].needs_renewal
                  /\ statuses[i].error_message = "Certificate renewal failed"

\* C20 witness: the pass has ended after a refused re-enrollment, and there is
\* no backup.
C20_Witness ==
    /\ C20_Refused
    /\ pc = "sleep"
    /\ ~Exists(fs, CertBackupPath(last_renew.cert))
    /\ \E i \in 1..Len(statuses) : statuses[i].name = last_renew.cert

-----------------------------------------------------------------------------
(* Claims about retries (SpecLoopFair) *)

\* the pass in progress has ended, with its statuses or with an exception
C21_PassOver ==
    \/ pc = "raised"
    \/ pc = "renew" /\ idx > Len(statuses)

\* the statuses of the current pass that the renewal loop has dealt with
DealtWith(i) ==
    \/ pc \in {"renew", "renewing"} /\ i < idx
    \/ pc \in {"sleep", "sleeping", "loop", "stopped"}

\* within one pass renew_certificate is called at most once for a certificate,
\* and it was called for every certificate that still needs renewal
C21_OneAttemptPerPass ==
    /\ \A c \in Certs : attempts[c].n <= 1
    /\ \A i \in 1..Len(statuses) :
          (DealtWith(i) /\ statuses[i].needs_renewal) => attempts[statuses[i].name].n = 1

\* C21: a certificate is renewed at most once in a pass and in every pass in
\* which it needs renewal, whatever became of earlier attempts; and after every
\* pass, failed or not, a further pass starts unless a signal stops the daemon.
C21_FailedRenewalRetriedNextPass ==
    /\ []C21_OneAttemptPerPass
    /\ (C21_PassOver /\ passes < MaxPasses /\ running) ~> (pc = "eval" \/ ~running)

\* C21 witness: in the second pass renew_certificate is called for the
\* certificate whose renewal failed in the first.
C21_Witness ==
    /\ passes = 2
    /\ pc = "renewing"
    /\ last_renew.made
    /\ ~last_renew.ok
    /\ last_renew.pass = 1
    /\ statuses[idx].name = last_renew.cert

-----------------------------------------------------------------------------
(* Claims about readers of the certificate files (SpecWrite) *)

\* C22: whatever another process reads at cert_path or key_path while an
\* enrollment or a renewal writes them is the complete old or the complete new
\* content of the file.
C22_ReaderSeesOldOrNew ==
    observed.some => observed.bytes \in {observed.old, observed.new}

-----------------------------------------------------------------------------
(* Claims about the check command (SpecCheck) *)

\* C23: the check command exits 0 exactly when nothing failed during its pass:
\* no certificate failed to load, no renewal or verification failed, and the
\* pass raised no exception.
C23_ExitCodeTellsFailure ==
    (pc \in {"exit0", "exit1"} /\ passes = 1) =>
        (pc = "exit0" <=>
            /\ Len(statuses) = NumCerts
            /\ \A i \in 1..Len(statuses) : statuses[i].error_message = "")

-----------------------------------------------------------------------------
(* Claims about the order of statuses and report entries (SpecStatus) *)

\* C24: certificates are evaluated in the order of the configuration, and the
\* status list and the status report hold one entry for each configured
\* certificate, in that order.
C24_EveryCertificateInOrder ==
    /\ \A i \in 1..Len(statuses) : statuses[i].name = i
    /\ pc = "report" => Len(statuses) = NumCerts
    /\ report.made => report.certificates = [i \in 1..NumCerts |-> i]

-----------------------------------------------------------------------------
(* Claims about what a renewal leaves in the status (SpecLoop) *)

\* C25: in a pass renew_certificate is called once for every status that
\* needs renewal and for no other; a renewal that succeeded and was verified
\* leaves needs_renewal false and no error message, a renewal that failed or
\* was not verified leaves needs_renewal true and an error message.
C25_RenewalOutcomeInStatus ==
    \A i \in 1..Len(statuses) :
        DealtWith(i) =>
            LET a == attempts[statuses[i].name]
            IN  /\ a.n <= 1
                /\ a.n = 0 => ~statuses[i].needs_renewal
                /\ (a.n = 1 /\ a.ok /\ a.verified) =>
                      ~statuses[i].needs_renewal /\ statuses[i].error_message = ""
                /\ (a.n = 1 /\ ~(a.ok /\ a.verified)) =>
                      statuses[i].needs_renewal /\ statuses[i].error_message # ""

\* C25 witness: a pass has ended in which one certificate was renewed and
\* verified and another was renewed but not verified.
C25_Witness ==
    /\ pc = "sleep"
    /\ \E i, j \in 1..Len(statuses) :
          /\ attempts[statuses[i].name] = [n |-> 1, ok |-> TRUE, verified |-> TRUE]
          /\ attempts[statuses[j].name] = [n |-> 1, ok |-> TRUE, verified |-> FALSE]

\* C26: when certificate k + 1 has been evaluated, certificate k, if it needed
\* renewal, has been through its renewal and verification.
C26_RenewedBeforeNextEvaluated ==
    \A k \in 1..(Len(statuses) - 1) :
        statuses[k].needs_renewal =>
            /\ attempts[statuses[k].name].n = 1
            /\ in_renewal[statuses[k].name] = 0

-----------------------------------------------------------------------------
(* Claims about the order of the CRL URLs (SpecRevoke) *)

\* C27: the URLs are consulted in the order of the configuration followed by
\* the order of the certificate's distribution points, so that the result
\* comes from the first URL in that order whose CRL lists the serial.
C27_ConfiguredThenCdpOrder ==
    last_check.made =>
        LET want == last_check.configured \o last_check.cdp
        IN  \A i \in 1..Len(last_check.seen) :
                i <= Len(want) /\ last_check.seen[i].url = want[i]

-----------------------------------------------------------------------------
(* Claims about the ladder of renewal reasons (SpecEval) *)

\* C28: for a certificate that is not revoked and has not expired,
\* renewal_reason is emergency when the days left are at most the emergency
\* days; else warning when they are at most the warning days and renewal is
\* needed; else approaching when they are at most the warning days; else
\* normal when renewal is needed; else valid.
C28_ReasonLadder ==
    \A i \in 1..Len(statuses) :
        (statuses[i].has_expiry /\ ~statuses[i].is_revoked /\ statuses[i].days >= 0) =>
            statuses[i].reason =
                IF statuses[i].days <= service.emergency THEN "emergency"
                ELSE IF statuses[i].days <= service.warning /\ statuses[i].needs_renewal
                THEN "warning"
                ELSE IF statuses[i].days <= service.warning THEN "approaching"
                ELSE IF statuses[i].needs_renewal THEN "normal"
                ELSE "valid"

\* C28 witness: one pass reports a certificate as approaching and another as
\* warning, neither revoked.
C28_Witness ==
    \E i, j \in 1..Len(statuses) :
        /\ statuses[i].reason = "approaching" /\ ~statuses[i].is_revoked
        /\ statuses[j].reason = "warning" /\ ~statuses[j].is_revoked

-----------------------------------------------------------------------------
(* Claims about the token adapter (SpecRenew) *)

\* C29: under the token adapter no .backup file of the certificate or the key
\* is left when a renewal has succeeded.
C29_NoBackupAfterSuccess ==
    (last_renew.made /\ protocol = "JWK" /\ last_renew.ok) =>
        /\ ~Exists(fs, CertBackupPath(last_renew.cert))
        /\ ~Exists(fs, KeyBackupPath(last_renew.cert))

\* C30: under the token adapter, with certificate and key present, the first
\* command is the in-place renewal; the token and the certificate request
\* follow only when it failed, the request only when the token was obtained;
\* the call then returns what the fresh enrollment came to, and a successful
\* enrollment leaves a new certificate and its key at cert_path and key_path.
C30_InPlaceThenEnroll ==
    (/\ last_renew.made
     /\ protocol = "JWK"
     /\ last_renew.pre_cert.kind # "absent"
     /\ last_renew.pre_key.kind # "absent") =>
        LET st == last_renew.step
            c == last_renew.cert
        IN  /\ st.cmds \in {<<"renew">>, <<"renew", "token">>, <<"renew", "token", "certificate">>}
            /\ st.in_place <=> st.cmds = <<"renew">>
            /\ st.in_place => last_renew.ok
            /\ ~st.in_place => (last_renew.ok <=> st.enrolled)
            /\ st.enrolled =>
                  /\ st.cmds = <<"renew", "token", "certificate">>
                  /\ fs[CertPath(c)].kind = "cert"
                  /\ fs[CertPath(c)].serial = issued
                  /\ fs[KeyPath(c)] = KeyF(fs[CertPath(c)].key)
                  /\ fs[CertPath(c)] # last_renew.pre_cert

\* C30 witness: the in-place renewal failed and the fresh enrollment succeeded.
C30_Witness ==
    /\ last_renew.made
    /\ protocol = "JWK"
    /\ last_renew.pre_cert.kind = "cert"
    /\ last_renew.pre_key.kind = "key"
    /\ ~last_renew.step.in_place
    /\ last_renew.step.enrolled
    /\ last_renew.ok

-----------------------------------------------------------------------------
(* Claims about the EST adapter's backups (SpecRenew) *)

\* C31: under the EST adapter, when a renewal of an existing certificate has
\* overwritten the certificate or the key, <cert_path>.backup holds the
\* certificate and <key_path>.backup the key that were there before the call.
C31_ESTBacksUpCertAndKey ==
    (/\ last_renew.made
     /\ protocol = "EST"
     /\ last_renew.pre_cert.kind # "absent"
     /\ \/ fs[CertPath(last_renew.cert)] # last_renew.pre_cert
        \/ fs[KeyPath(last_renew.cert)] # last_renew.pre_key) =>
        /\ fs[CertBackupPath(last_renew.cert)] = last_renew.pre_cert
        /\ fs[KeyBackupPath(last_renew.cert)] = last_renew.pre_key

-----------------------------------------------------------------------------
(* Claims about when refresh_crl downloads (SpecCRL) *)

\* the last refresh_crl call was made inside the 60-second window: the URL had
\* been downloaded less than 60 s before and a CRL for it was held in memory
InCoalesceWindow ==
    /\ last_call.last.some
    /\ last_call.time - last_call.last.t < CoalesceWindow
    /\ last_call.cached.some

\* C32: a refresh_crl call made when the cache file is missing, older than
\* crl_refresh_hours or past the cached next_update uses the network when it is
\* outside the 60-second window, and inside the window returns the CRL held in
\* memory without using the network.
C32_DueCrlFetchedUnlessInWindow ==
    (last_call.made /\ last_call.should) =>
        IF InCoalesceWindow
        THEN /\ ~last_call.net
             /\ last_call.ret = last_call.cached
        ELSE last_call.net

\* C32 witness: a call inside the window, with a cache file that exists and is
\* due for a refresh, reused the CRL in memory.
C32_Witness ==
    /\ last_call.made
    /\ last_call.should
    /\ last_call.file.enc # "absent"
    /\ InCoalesceWindow
    /\ ~last_call.net
    /\ last_call.ret.some

\* C39: outside the 60-second window every refresh_crl call uses the network,
\* whatever the age of the cache file and the cached next_update, and the cache
\* file is read only in a call whose download failed or did not parse.
C39_DownloadsWheneverOutsideWindow ==
    last_call.made =>
        /\ ~InCoalesceWindow => last_call.net
        /\ last_call.load => (last_call.net /\ (~last_call.dl_ok \/ ~last_call.parsed))

\* C39 witness: a call outside the window used the network although the cache
\* file existed, was younger than crl_refresh_hours and no next_update was reached.
C39_Witness ==
    /\ last_call.made
    /\ ~InCoalesceWindow
    /\ ~last_call.should
    /\ last_call.file.enc # "absent"
    /\ last_call.cached.some
    /\ last_call.net

\* C40: a refresh_crl call for a URL whose CRL is held in memory returns a CRL.
C40_CachedUrlAlwaysReturnsCrl ==
    (last_call.made /\ last_call.cached.some) => last_call.ret.some

-----------------------------------------------------------------------------
(* Claims about get_provisioner_token (SpecToken) *)

-----------------------------------------------------------------------------
(* Claims about what a pass leaves alone (SpecLoop) *)

\* C34: while a pass is in its renewal loop, no step calls renew_certificate
\* for a certificate whose status was evaluated with needs_renewal false (it
\* is false and no renewal was attempted in the pass), and no step changes its
\* certificate, its key or their .backup files.
C34_NotNeededLeftAlone ==
    [][\A i \in 1..Len(statuses) :
          (/\ pc \in {"renew", "renewing"}
           /\ ~statuses[i].needs_renewal
           /\ attempts[statuses[i].name].n = 0) =>
              LET c == statuses[i].name
              IN  /\ attempts'[c].n = 0
                  /\ in_renewal'[c] = in_renewal[c]
                  /\ fs'[CertPath(c)] = fs[CertPath(c)]
                  /\ fs'[KeyPath(c)] = fs[KeyPath(c)]
                  /\ fs'[CertBackupPath(c)] = fs[CertBackupPath(c)]
                  /\ fs'[KeyBackupPath(c)] = fs[KeyBackupPath(c)]]_vars

\* C34 witness: a pass has ended in which one certificate was renewed and
\* another, evaluated with needs_renewal false, was not.
C34_Witness ==
    /\ pc = "sleep"
    /\ \E i, j \in 1..Len(statuses) :
          /\ ~statuses[i].needs_renewal
          /\ attempts[statuses[i].name].n = 0
          /\ attempts[statuses[j].name].n = 1
          /\ fs[CertPath(statuses[j].name)].serial > NumCerts

-----------------------------------------------------------------------------
(* Claims about signals (SpecBoot) *)

\* C35: once a termination signal has arrived, at any time after the handlers
\* were installed, run_daemon starts no further pass: the number of passes
\* started stays what it was when the signal arrived, and no pass is started
\* by a daemon whose only signal came before its loop.
C35_NoPassAfterSignal ==
    signal_at.some =>
        /\ passes = signal_at.passes
        /\ signal_at.pc = "init" => pc \in {"created", "initialized", "exit1", "loop", "stopped"}

-----------------------------------------------------------------------------
(* Claims about what one pass achieves (SpecCheck) *)

\* C36: when a check pass has returned its statuses, needs_renewal is false
\* for every certificate that the pass did not renew, for every certificate
\* whose renewal was granted and verified, and for every certificate whose
\* renewal under JWK had no request refused by the CA because it ran no step
\* command at all (its certificate or key file was missing).
C36_AcceptingCaClearsNeedsRenewal ==
    pc = "exit0" =>
        \A i \in 1..Len(statuses) :
            LET c == statuses[i].name
            IN  (\/ attempts[c].n = 0
                 \/ attempts[c].verified
                 \/ /\ protocol = "JWK"
                    /\ last_renew.made
                    /\ last_renew.cert = c
                    /\ last_renew.step.cmds = <<>>) =>
                    ~statuses[i].needs_renewal

\* C37: when renew_certificate returned true and the verification that follows
\* fails, the pass rolls nothing back: cert_path holds the certificate just
\* issued and key_path its key, and the status keeps needs_renewal true with
\* the verification failure as its error_message.
C37_UnverifiedRenewalStaysInPlace ==
    [][(pc = "renewing" /\ pc' = "renew") =>
          LET c == statuses[idx].name
          IN  (attempts'[c].ok /\ ~attempts'[c].verified) =>
                  /\ statuses'[idx].needs_renewal
                  /\ statuses'[idx].error_message =
                         "Certificate verification failed after renewal"
                  /\ fs'[CertPath(c)].kind = "cert"
                  /\ fs'[CertPath(c)].serial = issued + 1
                  /\ fs'[KeyPath(c)].kind = "key"
                  /\ fs'[KeyPath(c)].key = fs'[CertPath(c)].key]_vars

\* a JWK renewal has returned true, its verification has failed, and the pass
\* has moved on with the new certificate at cert_path
C37_Witness ==
    /\ protocol = "JWK"
    /\ pc = "renew"
    /\ \E i \in 1..Len(statuses) :
          /\ i < idx
          /\ attempts[statuses[i].name] = [n |-> 1, ok |-> TRUE, verified |-> FALSE]
          /\ statuses[i].needs_renewal
          /\ fs[CertPath(statuses[i].name)].serial = issued

-----------------------------------------------------------------------------
(* Claims about the pair left at cert_path and key_path (SpecRenew) *)

\* C38: when a renewal or enrollment call has returned, cert_path and key_path
\* hold either what they held before the call or the certificate just issued
\* together with the key it was issued for.
C38_ReturnLeavesMatchingPair ==
    last_renew.made =>
        LET cert == fs[CertPath(last_renew.cert)]
            key == fs[KeyPath(last_renew.cert)]
        IN  \/ cert = last_renew.pre_cert /\ key = last_renew.pre_key
            \/ /\ cert.kind = "cert"
               /\ cert.serial = issued
               /\ key.kind = "key"
               /\ key.key = cert.key

====
